---------------------------- MODULE Spec2Model ----------------------------
(***************************************************************************)
(* Request-resolution core of the Achat WhatsApp ordering bot:             *)
(*   - OrderService          (src/src/services/order.service.ts)           *)
(*   - SmartSearchService    (src/src/services/smart-search.service.ts)    *)
(*   - AIOrderService        (src/src/services/ai-order.service.ts,        *)
(*                            latest revision, lines 353-752)              *)
(*   - IntentClassifierService.extractQuantityAndUnit                      *)
(*                           (src/unnamed/part_004)                        *)
(* Texts are sequences of one-character strings; scores are exact          *)
(* rationals <<numerator, denominator>> (the JavaScript doubles they       *)
(* stand for are compared only through <, >= and max).                     *)
(* Disk persistence (saveOrders / saveToHistory) swallows its own errors   *)
(* and never writes to the in-memory map, so it is left out of the state.  *)
(***************************************************************************)
EXTENDS Integers, Sequences, FiniteSets, TLC

(***************************************************************************)
(* Bounds of the model.                                                    *)
(***************************************************************************)
MaxQty == 4          \* largest quantity a cart line may accumulate
MaxCatalog == 2      \* longest catalog handed to a stand-alone search() call
MaxText == 3         \* longest text handed to a stand-alone normalizeText call
MaxWords == 4        \* most words of an utterance handed to splitRequests
MaxOptions == 6      \* longest option list handed to a stand-alone needsUserChoice call
MaxCandidates == 2   \* longest candidate list handed to selectSmallestOrMostCommon
MaxCallers == 17     \* most calls of waitIfNeeded in one run
MaxLoads == 3        \* most reloads of the price list in one run
MaxReaders == 2      \* most lists handed out by getProducts in one run

(***************************************************************************)
(* Text primitives (JavaScript String methods used by the services).       *)
(***************************************************************************)
RECURSIVE Chars(_)
Chars(s) == IF Len(s) = 0 THEN <<>> ELSE <<Head(s)>> \o Chars(Tail(s))

UpperChars == Chars("ABCDEFGHIJKLMNOPQRSTUVWXYZÁÉÍÓÚÑÜ")
LowerChars == Chars("abcdefghijklmnopqrstuvwxyzáéíóúñü")
AccentChars == Chars("áéíóúñü")
BaseChars == Chars("aeiounu")
LetterSet == {LowerChars[i] : i \in 1..26}
DigitSet == {"0", "1", "2", "3", "4", "5", "6", "7", "8", "9"}
SpaceSet == {" ", "\n", "\t"}

IndexOf(seq, c) == CHOOSE i \in 1..Len(seq) : seq[i] = c

\* String.prototype.toLowerCase, one character
lowerChar(c) ==
    IF \E i \in 1..Len(UpperChars) : UpperChars[i] = c
    THEN LowerChars[IndexOf(UpperChars, c)] ELSE c

toLowerCase(t) == [i \in 1..Len(t) |-> lowerChar(t[i])]

\* String.prototype.toUpperCase, one character
upperChar(c) ==
    IF \E i \in 1..Len(LowerChars) : LowerChars[i] = c
    THEN UpperChars[IndexOf(LowerChars, c)] ELSE c

toUpperCase(t) == [i \in 1..Len(t) |-> upperChar(t[i])]

\* .normalize('NFD') followed by removal of the combining marks, one character
stripAccent(c) ==
    IF \E i \in 1..Len(AccentChars) : AccentChars[i] = c
    THEN BaseChars[IndexOf(AccentChars, c)] ELSE c

\* String.prototype.trim
RECURSIVE trimLeft(_)
trimLeft(t) ==
    IF t # <<>> /\ Head(t) \in SpaceSet THEN trimLeft(Tail(t)) ELSE t

RECURSIVE trimRight(_)
trimRight(t) ==
    IF t # <<>> /\ t[Len(t)] \in SpaceSet
    THEN trimRight(SubSeq(t, 1, Len(t) - 1)) ELSE t

trim(t) == trimRight(trimLeft(t))

\* .replace(/\s+/g, ' ')
RECURSIVE collapseSpaces(_)
collapseSpaces(t) ==
    IF t = <<>> THEN <<>>
    ELSE IF Head(t) \in SpaceSet
         THEN <<" ">> \o collapseSpaces(trimLeft(t))
         ELSE <<Head(t)>> \o collapseSpaces(Tail(t))

\* String.prototype.split(/\s+/): a leading or trailing run of white space
\* yields an empty first or last piece, and "" splits into [""]
RECURSIVE splitFrom(_, _)
splitFrom(t, cur) ==
    IF t = <<>> THEN <<cur>>
    ELSE IF Head(t) \in SpaceSet
         THEN <<cur>> \o splitFrom(trimLeft(t), <<>>)
         ELSE splitFrom(Tail(t), Append(cur, Head(t)))

splitSpaces(t) == splitFrom(t, <<>>)

\* String.prototype.includes
includes(t, sub) ==
    \E i \in 1..(Len(t) - Len(sub) + 1) : SubSeq(t, i, i + Len(sub) - 1) = sub

\* normalizeText that trims first and removes and collapses afterwards
normalizeText_TrimFirst(text) ==
    LET lowered  == trim([i \in 1..Len(text) |-> stripAccent(lowerChar(text[i]))])
        kept     == SelectSeq(lowered, LAMBDA c : c \in LetterSet \cup DigitSet \cup SpaceSet)
    IN  collapseSpaces(kept)

\* SmartSearchService.normalizeText
normalizeText(text) ==
    LET lowered  == [i \in 1..Len(text) |-> stripAccent(lowerChar(text[i]))]
        kept     == SelectSeq(lowered, LAMBDA c : c \in LetterSet \cup DigitSet \cup SpaceSet)
    IN  trim(collapseSpaces(kept))

(***************************************************************************)
(* Products (src/unnamed/part_000, interface Product) as the loader builds *)
(* them (ExcelService.loadProducts): keywords come from generateKeywords.  *)
(***************************************************************************)
NULL == "null"
UNDEFINED == "undefined"

\* Array.from(new Set(list)): first occurrences, in insertion order
RECURSIVE uniqueInOrder(_)
uniqueInOrder(list) ==
    IF list = <<>> THEN <<>>
    ELSE LET front == uniqueInOrder(SubSeq(list, 1, Len(list) - 1))
             last  == list[Len(list)]
         IN  IF \E i \in 1..Len(front) : front[i] = last
             THEN front ELSE Append(front, last)

\* Array.prototype.flat over a sequence of sequences
RECURSIVE flatten(_)
flatten(lists) ==
    IF lists = <<>> THEN <<>> ELSE Head(lists) \o flatten(Tail(lists))

\* the synonyms table of ExcelService.generateKeywords
synonyms(word) ==
    CASE word = Chars("leche")  -> <<Chars("lacteo"), Chars("dairy")>>
      [] word = Chars("arroz")  -> <<Chars("grano"), Chars("cereal")>>
      [] word = Chars("aceite") -> <<Chars("oleo"), Chars("grasa")>>
      [] word = Chars("pan")    -> <<Chars("panaderia"), Chars("bread")>>
      [] word = Chars("carne")  -> <<Chars("proteina"), Chars("meat")>>
      [] OTHER -> <<>>

\* ExcelService.generateKeywords
generateKeywords(descripcion) ==
    LET words == splitSpaces(toLowerCase(Chars(descripcion)))
        long  == SelectSeq(words, LAMBDA w : Len(w) > 3)
        syns  == flatten([i \in 1..Len(words) |-> synonyms(words[i])])
    IN  uniqueInOrder(long \o syns)

\* one row of the catalog: descripcion is the raw text of the sheet
Product(d, v, cat) ==
    [descripcion |-> d, ventas |-> v, categoria |-> cat,
     keywords |-> generateKeywords(d)]

ArrozDiana500 == Product("ARROZ DIANA 500G", 2500, "Granos")
ArrozRoa1Kg == Product("ARROZ ROA 1KG", 4800, "Granos")
LecheAlpina == Product("LECHE ALPINA", 4200, "Lácteos")
\* a second row with the description of the first one and another price
ArrozDiana500Bis == Product("ARROZ DIANA 500G", 2700, "Granos")

\* a row as the documented test builds it: no keywords, no category
BareProduct(d, v) ==
    [descripcion |-> d, ventas |-> v, categoria |-> "", keywords |-> <<>>]

\* same text as ArrozDiana500 after normalisation, another raw description
ArrozDianaMixed == BareProduct("Arroz Diana, 500g", 3500)

\* the shelf the order utterances are resolved against
Shelf ==
    << Product("LECHE ALPINA 1L", 4200, "Lácteos"),
       ArrozDiana500,
       ArrozRoa1Kg,
       Product("ARROZ FLORHUILA 1 LB", 2600, "Granos"),
       Product("ARROZ SUPREMO 2.5KG", 4900, "Granos"),
       Product("ARROZ INTEGRAL", 3900, "Granos"),
       Product("ARROZ BLANCO", 3000, "Granos"),
       Product("ARROZ DIANA 5 KG", 21000, "Granos"),
       Product("PANELA 500G", 3200, "Endulzantes") >>

\* catalogs: the runs of consecutive rows of the shelf, the empty one included
AICatalogs ==
    {SubSeq(Shelf, i, j) : i \in 1..Len(Shelf), j \in 0..Len(Shelf)}

AIMessages ==
    {"arroz", "Leche", "3 arroz", "arroz y leche", "2.5 kilos de arroz",
     "pan tajado", "ab", "arroz y panela", "arroz y arroz integral"}

\* the products the carts are filled with
OrderPool == <<ArrozDiana500, ArrozRoa1Kg, ArrozDiana500Bis>>
\* the quantities one addItem call may carry
AddQuantities == {1, 2, 3}

Customers == {"573001", "573002"}

(***************************************************************************)
(* Scores: exact rationals <<numerator, denominator>> in lowest terms.     *)
(***************************************************************************)
RECURSIVE gcd(_, _)
gcd(a, b) == IF b = 0 THEN a ELSE gcd(b, a % b)

rat(n, d) == IF n = 0 THEN <<0, 1>> ELSE <<n \div gcd(n, d), d \div gcd(n, d)>>
ratAdd(x, y) == rat(x[1] * y[2] + y[1] * x[2], x[2] * y[2])
ratMul(x, y) == rat(x[1] * y[1], x[2] * y[2])
ratLess(x, y) == x[1] * y[2] < y[1] * x[2]
ratGeq(x, y) == ~ratLess(x, y)
ratMin(x, y) == IF ratLess(y, x) THEN y ELSE x

RECURSIVE ratSum(_)
ratSum(list) ==
    IF list = <<>> THEN rat(0, 1) ELSE ratAdd(Head(list), ratSum(Tail(list)))

(***************************************************************************)
(* SmartSearchService (src/src/services/smart-search.service.ts).          *)
(***************************************************************************)
SearchResult(product, score, matchType) ==
    [product |-> product, score |-> score, matchType |-> matchType]

\* the loop "for (const product of products) { if (...) results.push(...) }"
collect(products, Hit(_), Result(_)) ==
    flatten([i \in 1..Len(products) |->
                IF Hit(products[i]) THEN <<Result(products[i])>> ELSE <<>>])

some(list, Test(_)) == \E i \in 1..Len(list) : Test(list[i])

\* exactSearch that compares the lower-cased description without normalising it
exactSearch_NoNormalize(query, products) ==
    collect(products,
            LAMBDA p : toLowerCase(Chars(p.descripcion)) = query,
            LAMBDA p : SearchResult(p, rat(1, 1), "exact"))

\* SmartSearchService.exactSearch
exactSearch(query, products) ==
    collect(products,
            LAMBDA p : normalizeText(Chars(p.descripcion)) = query,
            LAMBDA p : SearchResult(p, rat(1, 1), "exact"))

\* the relevance one query word adds for a product (0 when it is not found)
wordRelevance(qWord, productWords) ==
    IF some(productWords, LAMBDA pWord : pWord = qWord) THEN rat(1, 1)
    ELSE IF some(productWords, LAMBDA pWord : includes(pWord, qWord) /\ Len(qWord) > 3)
         THEN rat(4, 5)
         ELSE rat(0, 1)

partialQueryWords(query) == SelectSeq(splitSpaces(query), LAMBDA w : Len(w) > 2)

\* the number of query words found in the product (matchedWords)
partialMatched(queryWords, productWords) ==
    Cardinality({i \in 1..Len(queryWords) :
                    wordRelevance(queryWords[i], productWords) # rat(0, 1)})

\* partialScore without the Math.min(score, 0.95)
partialScore_Uncapped(queryWords, productWords) ==
    LET totalRelevance ==
            ratSum([i \in 1..Len(queryWords) |->
                        wordRelevance(queryWords[i], productWords)])
    IN  ratAdd(rat(85, 100),
               ratMul(ratMul(totalRelevance, rat(1, Len(queryWords))),
                      rat(15, 100)))

partialScore(queryWords, productWords) ==
    LET totalRelevance ==
            ratSum([i \in 1..Len(queryWords) |->
                        wordRelevance(queryWords[i], productWords)])
        score == ratAdd(rat(85, 100),
                        ratMul(ratMul(totalRelevance, rat(1, Len(queryWords))),
                               rat(15, 100)))
    IN  ratMin(score, rat(95, 100))

\* partialSearch with OR semantics: one query word found is enough
partialSearch_AnyWord(query, products) ==
    LET queryWords == partialQueryWords(query)
        words(p) == splitSpaces(normalizeText(Chars(p.descripcion)))
    IN  IF queryWords = <<>> THEN <<>>
        ELSE collect(products,
                LAMBDA p : partialMatched(queryWords, words(p)) > 0,
                LAMBDA p : SearchResult(p, partialScore(queryWords, words(p)),
                                        "partial"))

\* SmartSearchService.partialSearch
partialSearch(query, products) ==
    LET queryWords == partialQueryWords(query)
        words(p) == splitSpaces(normalizeText(Chars(p.descripcion)))
    IN  IF queryWords = <<>> THEN <<>>
        ELSE collect(products,
                LAMBDA p : partialMatched(queryWords, words(p)) = Len(queryWords),
                LAMBDA p : SearchResult(p, partialScore(queryWords, words(p)),
                                        "partial"))

\* the keywords of the product that contain the query or are contained in it
matchingKeywords(query, p) ==
    SelectSeq([i \in 1..Len(p.keywords) |-> normalizeText(p.keywords[i])],
              LAMBDA k : includes(k, query) \/ includes(query, k))

\* 0.7 + matchingKeywords.length * 0.05 without the Math.min
keywordScore_Uncapped(matching) == ratAdd(rat(7, 10), rat(5 * matching, 100))

\* Math.min(0.7 + (matchingKeywords.length * 0.05), 0.85)
keywordScore(matching) ==
    ratMin(ratAdd(rat(7, 10), rat(5 * matching, 100)), rat(85, 100))

\* SmartSearchService.keywordSearch
keywordSearch(query, products) ==
    collect(products,
            LAMBDA p : Len(matchingKeywords(query, p)) > 0,
            LAMBDA p : SearchResult(p, keywordScore(Len(matchingKeywords(query, p))),
                                    "keyword"))

min2(a, b) == IF a < b THEN a ELSE b

\* one row of the Levenshtein matrix from the row above it
RECURSIVE levRow(_, _, _, _, _)
levRow(prev, row, i, str1, str2) ==
    LET j == Len(row)      \* the column to fill; row[j + 1] holds matrix[i][j]
    IN  IF j > Len(str2) THEN row
        ELSE LET cost == IF str1[i] = str2[j] THEN 0 ELSE 1
                 cell == min2(min2(prev[j + 1] + 1, row[j] + 1), prev[j] + cost)
             IN  levRow(prev, Append(row, cell), i, str1, str2)

RECURSIVE levRows(_, _, _, _)
levRows(prev, i, str1, str2) ==
    IF i > Len(str1) THEN prev
    ELSE levRows(levRow(prev, <<i>>, i, str1, str2), i + 1, str1, str2)

\* SmartSearchService.levenshteinDistance
levenshteinDistance(str1, str2) ==
    IF Len(str1) = 0 THEN Len(str2)
    ELSE IF Len(str2) = 0 THEN Len(str1)
    ELSE levRows([j \in 1..(Len(str2) + 1) |-> j - 1], 1, str1, str2)[Len(str2) + 1]

max2(a, b) == IF a > b THEN a ELSE b

\* SmartSearchService.levenshteinSimilarity
levenshteinSimilarity(str1, str2) ==
    LET maxLength == max2(Len(str1), Len(str2))
    IN  rat(maxLength - levenshteinDistance(str1, str2), maxLength)

\* the best similarity of a query word among the product words of length >= 3
RECURSIVE bestSimilarity(_, _)
bestSimilarity(qWord, productWords) ==
    IF productWords = <<>> THEN rat(0, 1)
    ELSE LET rest == bestSimilarity(qWord, SubSeq(productWords, 1, Len(productWords) - 1))
             pWord == productWords[Len(productWords)]
         IN  IF Len(pWord) < 3 THEN rest
             ELSE IF ratLess(rest, levenshteinSimilarity(qWord, pWord))
                  THEN levenshteinSimilarity(qWord, pWord) ELSE rest

fuzzyQueryWords(query) == SelectSeq(splitSpaces(query), LAMBDA w : Len(w) > 3)

\* fuzzyMatches with the threshold at 0.8
fuzzyMatches_Above80(queryWords, productWords) ==
    SelectSeq([i \in 1..Len(queryWords) |-> bestSimilarity(queryWords[i], productWords)],
              LAMBDA sim : ratLess(rat(8, 10), sim))

\* the similarities of the query words that count as matched (> 0.7)
fuzzyMatches(queryWords, productWords) ==
    SelectSeq([i \in 1..Len(queryWords) |-> bestSimilarity(queryWords[i], productWords)],
              LAMBDA sim : ratLess(rat(7, 10), sim))

\* matchedWords > 0 && matchedWords >= queryWords.length * 0.6
fuzzyAccepts(queryWords, productWords) ==
    LET matchedWords == Len(fuzzyMatches(queryWords, productWords))
    IN  matchedWords > 0 /\ 10 * matchedWords >= 6 * Len(queryWords)

\* (totalSimilarity / queryWords.length) * 0.7
fuzzyScore(queryWords, productWords) ==
    ratMul(ratMul(ratSum(fuzzyMatches(queryWords, productWords)),
                  rat(1, Len(queryWords))),
           rat(7, 10))

\* SmartSearchService.fuzzySearch
fuzzySearch(query, products) ==
    LET queryWords == fuzzyQueryWords(query)
        words(p) == splitSpaces(normalizeText(Chars(p.descripcion)))
    IN  IF queryWords = <<>> THEN <<>>
        ELSE collect(products,
                LAMBDA p : fuzzyAccepts(queryWords, words(p)),
                LAMBDA p : SearchResult(p, fuzzyScore(queryWords, words(p)), "fuzzy"))

\* SmartSearchService.categorySearch
categorySearch(query, products) ==
    collect(products,
            LAMBDA p : /\ p.categoria # ""
                       /\ \/ includes(normalizeText(Chars(p.categoria)), query)
                          \/ includes(query, normalizeText(Chars(p.categoria))),
            LAMBDA p : SearchResult(p, rat(1, 2), "category"))

\* position of the description among the keys of the map, 0 when absent
keyIndex(list, descripcion) ==
    IF \E i \in 1..Len(list) : list[i].product.descripcion = descripcion
    THEN CHOOSE i \in 1..Len(list) : list[i].product.descripcion = descripcion
    ELSE 0

\* removeDuplicates that lets every later result overwrite the earlier one
RECURSIVE removeDuplicates_KeepLast(_)
removeDuplicates_KeepLast(results) ==
    IF results = <<>> THEN <<>>
    ELSE LET map    == removeDuplicates_KeepLast(SubSeq(results, 1, Len(results) - 1))
             result == results[Len(results)]
             k      == keyIndex(map, result.product.descripcion)
         IN  IF k = 0 THEN Append(map, result) ELSE [map EXCEPT ![k] = result]

\* SmartSearchService.removeDuplicates: a Map keyed by descripcion keeps the
\* insertion order of the keys; a strictly better result replaces the value
\* in place
RECURSIVE removeDuplicates(_)
removeDuplicates(results) ==
    IF results = <<>> THEN <<>>
    ELSE LET map    == removeDuplicates(SubSeq(results, 1, Len(results) - 1))
             result == results[Len(results)]
             k      == keyIndex(map, result.product.descripcion)
         IN  IF k = 0 THEN Append(map, result)
             ELSE IF ratLess(map[k].score, result.score)
                  THEN [map EXCEPT ![k] = result]
                  ELSE map

\* a search() that forgets to sort
sortByScore_Unsorted(list) == list

\* Array.prototype.sort((a, b) => b.score - a.score): stable, descending
RECURSIVE sortByScore(_)
sortByScore(list) ==
    IF list = <<>> THEN <<>>
    ELSE LET sorted == sortByScore(SubSeq(list, 1, Len(list) - 1))
             x      == list[Len(list)]
             \* x goes behind every element whose score is not below its own
             n      == Cardinality({i \in 1..Len(sorted) : ratGeq(sorted[i].score, x.score)})
         IN  SubSeq(sorted, 1, n) \o <<x>> \o SubSeq(sorted, n + 1, Len(sorted))

\* Array.prototype.slice(0, n)
sliceTo(list, n) == SubSeq(list, 1, min2(n, Len(list)))

\* options of search(): an omitted field has its "has" flag FALSE
SearchOptions(hasMax, maxResults, hasMin, minScore, includeCategories) ==
    [hasMaxResults |-> hasMax, maxResults |-> maxResults,
     hasMinScore |-> hasMin, minScore |-> minScore,
     includeCategories |-> includeCategories]

\* options?.maxResults || 15
effectiveMaxResults(options) ==
    IF options.hasMaxResults /\ options.maxResults # 0 THEN options.maxResults ELSE 15

\* options?.minScore || 0.3
effectiveMinScore(options) ==
    IF options.hasMinScore /\ options.minScore # rat(0, 1)
    THEN options.minScore ELSE rat(3, 10)

\* the results of the strategies, concatenated in the order search() runs them
allStrategyResults(query, products, options) ==
    LET searchTerm == normalizeText(Chars(query))
    IN  exactSearch(searchTerm, products)
        \o partialSearch(searchTerm, products)
        \o keywordSearch(searchTerm, products)
        \o fuzzySearch(searchTerm, products)
        \o (IF options.includeCategories
            THEN categorySearch(searchTerm, products) ELSE <<>>)

\* SmartSearchService.search
search(query, products, options) ==
    LET uniqueResults == removeDuplicates(allStrategyResults(query, products, options))
        filtered == SelectSeq(uniqueResults,
                        LAMBDA r : ratGeq(r.score, effectiveMinScore(options)))
    IN  sliceTo(sortByScore(filtered), effectiveMaxResults(options))

(***************************************************************************)
(* Regular-expression pieces shared by the quantity, size and split        *)
(* patterns.  Positions are 1-based; Len(t) + 1 is the end of the text.    *)
(***************************************************************************)
\* Body applied to the value of v, which is computed once
bind(v, Body(_)) == CHOOSE r \in {Body(x) : x \in {v}} : TRUE

isDigit(c) == c \in DigitSet
\* \w: ASCII letters, digits and the underscore
isWordChar(c) ==
    c \in LetterSet \cup {UpperChars[i] : i \in 1..26} \cup DigitSet \cup {"_"}

\* first position >= i that holds no white space (greedy \s*)
RECURSIVE skipSpaces(_, _)
skipSpaces(t, i) ==
    IF i <= Len(t) /\ t[i] \in SpaceSet THEN skipSpaces(t, i + 1) ELSE i

\* first position >= i that holds no digit (greedy \d+)
RECURSIVE digitsEnd(_, _)
digitsEnd(t, i) ==
    IF i <= Len(t) /\ isDigit(t[i]) THEN digitsEnd(t, i + 1) ELSE i

digitValue(c) == CHOOSE n \in 0..9 : Chars("0123456789")[n + 1] = c

\* parseInt of the first n characters of a run of digits
RECURSIVE digitsValueTo(_, _)
digitsValueTo(ds, n) ==
    IF n = 0 THEN 0 ELSE 10 * digitsValueTo(ds, n - 1) + digitValue(ds[n])

\* parseInt of a run of digits
digitsValue(ds) == digitsValueTo(ds, Len(ds))

RECURSIVE pow10(_)
pow10(n) == IF n = 0 THEN 1 ELSE 10 * pow10(n - 1)

startsWithAt(t, i, lit) ==
    i + Len(lit) - 1 <= Len(t) /\ SubSeq(t, i, i + Len(lit) - 1) = lit

\* (\d+(?:\.\d+)?) or (\d+) anchored at position i, which holds a digit:
\* where the number ends and what parseFloat makes of it
numberAt(t, i, fraction) ==
    LET e == digitsEnd(t, i)
        hasFraction == /\ fraction
                       /\ e + 1 <= Len(t)
                       /\ t[e] = "."
                       /\ isDigit(t[e + 1])
        f == IF hasFraction THEN digitsEnd(t, e + 1) ELSE e
        whole == digitsValue(SubSeq(t, i, e - 1))
    IN  [end |-> f,
         value |-> IF hasFraction
                   THEN ratAdd(rat(whole, 1),
                               rat(digitsValue(SubSeq(t, e + 1, f - 1)), pow10(f - e - 1)))
                   ELSE rat(whole, 1)]

\* one of the unit alternatives at position j, followed by \b when asked for
unitAt(t, j, units, boundary) ==
    \E u \in units :
        /\ startsWithAt(t, j, u)
        /\ boundary => (j + Len(u) > Len(t) \/ ~isWordChar(t[j + Len(u)]))

\* the start positions at which  number \s* unit  matches
numberUnitStarts(t, fraction, units, boundary) ==
    {i \in 1..Len(t) :
        /\ isDigit(t[i])
        /\ unitAt(t, skipSpaces(t, numberAt(t, i, fraction).end), units, boundary)}

minOf(S) == CHOOSE x \in S : \A y \in S : x <= y

\* String.prototype.match with such a pattern: the number captured by the
\* leftmost match; found = FALSE when the pattern matches nowhere
matchNumberUnit(t, fraction, units, boundary) ==
    bind(numberUnitStarts(t, fraction, units, boundary), LAMBDA starts :
        IF starts = {} THEN [found |-> FALSE, value |-> rat(0, 1)]
        ELSE [found |-> TRUE, value |-> numberAt(t, minOf(starts), fraction).value])

(***************************************************************************)
(* IntentClassifierService.extractQuantityAndUnit (src/unnamed/part_004)   *)
(* and AIOrderService.extractQuantity.                                     *)
(***************************************************************************)
\* /^(\d+)\s+(?!kg|g|l)/i: a leading integer and white space; the white
\* space may give back all but one character to satisfy the look-ahead
leadingNumber(t) ==
    LET e == digitsEnd(t, 1)
        k == skipSpaces(t, e)
    IN  IF /\ t # <<>>
           /\ isDigit(t[1])
           /\ k > e
           /\ \/ k - e >= 2
              \/ ~unitAt(t, k, {Chars("kg"), Chars("g"), Chars("l")}, FALSE)
        THEN [found |-> TRUE, value |-> rat(digitsValue(SubSeq(t, 1, e - 1)), 1)]
        ELSE [found |-> FALSE, value |-> rat(0, 1)]

\* the patterns in the order the loop tries them; every alternative of a
\* unit group is listed by the shortest text that makes it match
quantityPatterns(t) ==
    << matchNumberUnit(t, TRUE, {Chars("kg"), Chars("kilogramo"), Chars("kilo")}, FALSE),
       matchNumberUnit(t, TRUE, {Chars("g"), Chars("gramo")}, FALSE),
       matchNumberUnit(t, TRUE, {Chars("l"), Chars("litro")}, FALSE),
       matchNumberUnit(t, FALSE, {Chars("unidade"), Chars("u"), Chars("pieza"), Chars("pza")}, FALSE),
       leadingNumber(t) >>

\* extractQuantityAndUnit: the quantity of the first pattern that matches
extractQuantityAndUnit(text) ==
    \* the patterns carry the i flag
    bind(toLowerCase(text), LAMBDA t :
        bind(quantityPatterns(t), LAMBDA ms :
            LET hits == {n \in 1..Len(ms) : ms[n].found}
            IN  IF hits = {} THEN [found |-> FALSE, value |-> rat(0, 1)]
                ELSE ms[minOf(hits)]))

\* AIOrderService.extractQuantity(text) || 1: a missing or zero quantity is 1
quantityOrOne(text) ==
    bind(extractQuantityAndUnit(text), LAMBDA m :
        IF m.found /\ m.value # rat(0, 1) THEN m.value ELSE rat(1, 1))

(***************************************************************************)
(* AIOrderService.splitRequests.                                           *)
(***************************************************************************)
\* the pattern with \w{3,} in the look-ahead
separatorEnd_ThreeLetters(t, i) ==
    LET j == skipSpaces(t, i)
        k == skipSpaces(t, j + 1)
    IN  IF /\ i <= Len(t) /\ t[i] \in SpaceSet
           /\ j <= Len(t) /\ t[j] = "y"
           /\ k > j + 1
           /\ k <= Len(t)
           /\ \/ isDigit(t[k])
              \/ /\ k + 2 <= Len(t)
                 /\ \A x \in k..(k + 2) : isWordChar(t[x])
        THEN k ELSE 0

\* /\s+y\s+(?=\d|\w{4,})/ matched at position i: the position after the
\* separator, 0 when there is no match at i
separatorEnd(t, i) ==
    LET j == skipSpaces(t, i)
        k == skipSpaces(t, j + 1)
    IN  IF /\ i <= Len(t) /\ t[i] \in SpaceSet
           /\ j <= Len(t) /\ t[j] = "y"
           /\ k > j + 1
           /\ k <= Len(t)
           /\ \/ isDigit(t[k])
              \/ /\ k + 3 <= Len(t)
                 /\ \A x \in k..(k + 3) : isWordChar(t[x])
        THEN k ELSE 0

\* String.prototype.split with that pattern
RECURSIVE splitOnY(_, _, _)
splitOnY(t, i, start) ==
    IF i > Len(t) THEN <<SubSeq(t, start, Len(t))>>
    ELSE bind(separatorEnd(t, i), LAMBDA k :
            IF k # 0
            THEN <<SubSeq(t, start, i - 1)>> \o splitOnY(t, k, k)
            ELSE splitOnY(t, i + 1, start))

\* AIOrderService.splitRequests
splitRequests(message) ==
    bind(toLowerCase(message), LAMBDA t :
        bind(splitOnY(t, 1, 1), LAMBDA parts :
            SelectSeq([n \in 1..Len(parts) |-> trim(parts[n])],
                      LAMBDA q : Len(q) > 2)))

(***************************************************************************)
(* AIOrderService: the automatic-selection helpers.                        *)
(***************************************************************************)
\* /(\d+)\s*X\s*(\d+)\s*(G|ML)/i: the product N x M of the leftmost match
packStarts(t) ==
    {i \in 1..Len(t) :
        /\ isDigit(t[i])
        /\ LET x == skipSpaces(t, digitsEnd(t, i))
               m == skipSpaces(t, x + 1)
           IN  /\ x <= Len(t) /\ t[x] = "X"
               /\ m <= Len(t) /\ isDigit(t[m])
               /\ unitAt(t, skipSpaces(t, digitsEnd(t, m)),
                         {Chars("G"), Chars("ML")}, FALSE)}

packSize(t) ==
    LET i == minOf(packStarts(t))
        m == skipSpaces(t, skipSpaces(t, digitsEnd(t, i)) + 1)
    IN  rat(digitsValue(SubSeq(t, i, digitsEnd(t, i) - 1))
              * digitsValue(SubSeq(t, m, digitsEnd(t, m) - 1)), 1)

\* the size patterns in the order the loop tries them, with their multiplier
sizePatterns(t) ==
    << [m |-> matchNumberUnit(t, TRUE, {Chars("KG")}, TRUE), multiplier |-> 1000],
       [m |-> matchNumberUnit(t, TRUE, {Chars("G")}, TRUE),  multiplier |-> 1],
       [m |-> matchNumberUnit(t, TRUE, {Chars("LB")}, TRUE), multiplier |-> 500],
       [m |-> matchNumberUnit(t, TRUE, {Chars("L")}, TRUE),  multiplier |-> 1000],
       [m |-> matchNumberUnit(t, TRUE, {Chars("ML")}, TRUE), multiplier |-> 1],
       [m |-> matchNumberUnit(t, TRUE, {Chars("CC")}, TRUE), multiplier |-> 1],
       [m |-> IF packStarts(t) = {} THEN [found |-> FALSE, value |-> rat(0, 1)]
              ELSE [found |-> TRUE, value |-> packSize(t)],
        multiplier |-> 1] >>

\* AIOrderService.extractSize: grams or millilitres, 0 when nothing matches
extractSize(description) ==
    bind(toUpperCase(Chars(description)), LAMBDA t :
        bind(sizePatterns(t), LAMBDA ps :
            LET hits == {n \in 1..Len(ps) : ps[n].m.found}
            IN  IF hits = {} THEN rat(0, 1)
                ELSE ratMul(ps[minOf(hits)].m.value,
                            rat(ps[minOf(hits)].multiplier, 1))))

\* AIOrderService.needsUserChoice
needsUserChoice_FromTwo(products) ==
    IF Len(products) < 2 THEN FALSE
    ELSE LET prices == {products[i].ventas : i \in 1..Len(products)}
             minPrice == minOf(prices)
             maxPrice == CHOOSE x \in prices : \A y \in prices : y <= x
         IN  maxPrice - minPrice > minPrice

\* needsUserChoice that also asks when the highest price is exactly double
needsUserChoice_FromDouble(products) ==
    IF Len(products) < 5 THEN FALSE
    ELSE LET prices == {products[i].ventas : i \in 1..Len(products)}
             minPrice == minOf(prices)
             maxPrice == CHOOSE x \in prices : \A y \in prices : y <= x
         IN  maxPrice - minPrice >= minPrice

needsUserChoice(products) ==
    IF Len(products) < 5 THEN FALSE
    ELSE LET prices == {products[i].ventas : i \in 1..Len(products)}
             minPrice == minOf(prices)
             maxPrice == CHOOSE x \in prices : \A y \in prices : y <= x
         IN  \* (maxPrice - minPrice) / minPrice > 1.0, prices being positive
             maxPrice - minPrice > minPrice

\* the first element that no other element is strictly below (a stable
\* ascending sort, then [0])
firstMinimal(list, Less(_, _)) ==
    list[CHOOSE i \in 1..Len(list) :
            /\ \A j \in 1..Len(list) : ~Less(list[j], list[i])
            /\ \A j \in 1..(i - 1) : Less(list[i], list[j])]

\* AIOrderService.selectSmallestOrMostCommon
selectSmallestOrMostCommon(products) ==
    LET productsWithSize ==
            [i \in 1..Len(products) |->
                [product |-> products[i],
                 size |-> extractSize(products[i].descripcion),
                 price |-> products[i].ventas]]
    IN  bind(SelectSeq(productsWithSize, LAMBDA p : ratLess(rat(0, 1), p.size)),
             LAMBDA withValidSize :
                IF Len(withValidSize) > 0
                THEN firstMinimal(withValidSize,
                                  LAMBDA a, b : ratLess(a.size, b.size)).product
                ELSE firstMinimal(products, LAMBDA a, b : a.ventas < b.ventas))

(***************************************************************************)
(* State.                                                                  *)
(***************************************************************************)
VARIABLES
    orders,      \* OrderService.orders: Map from customerPhone to Order
    lastOp,      \* the last OrderService call and its customer
    sPc,         \* search(): "idle", "call" (arguments bound) or "done"
    sQuery,      \* search(): the query argument
    sProducts,   \* search(): the products argument
    sOptions,    \* search(): the options argument
    sStrategies, \* search(): the array `results` before removeDuplicates
    sResults,    \* search(): the returned array
    aPc,         \* processOrder(): "idle", "call", "loop", "llm" (awaiting
                 \*   fetch inside getAIRecommendation) or "done"
    aMessage,    \* processOrder(): userMessage
    aProducts,   \* processOrder(): allProducts
    aApiKey,     \* AIOrderService.API_KEY is a non-empty string
    aRequests,   \* processOrder(): requests
    aIdx,        \* processOrder(): position of the for loop in requests
    aCandidates, \* processSingleRequest(): candidates of the current request
    aMatches,    \* processOrder(): allMatches
    aClar,       \* processOrder(): needsClarification (a list of products)
    aLog,        \* per sub-request: what was found and how it was settled
    aResult,     \* processOrder(): the returned AIOrderResult
    tPc,         \* a text helper called on its own: "idle", "call", "once"
                 \*   (normalizeText applied once) or "done"
    tKind,       \* which helper: "normalizeText" or "splitRequests"
    tInput,      \* its argument
    tOnce,       \* normalizeText(tInput)
    tTwice,      \* normalizeText(normalizeText(tInput))
    tParts,      \* splitRequests(tInput)
    hPc,         \* a private helper called on its own: "idle", "call" or "done"
    hKind,       \* which helper: "needsUserChoice", "selectSmallestOrMostCommon",
                 \*   "keywordSearch" or "fuzzySearch"
    hQuery,      \* its query argument (the search strategies)
    hProducts,   \* its products argument
    hOut,        \* what it returned
    rNow,        \* Date.now(), in milliseconds
    rEntry,      \* RateLimiterService.limits.get('global')
    rSleeping,   \* waitIfNeeded calls inside setTimeout: the times they are due
    rProceeded,  \* the times at which a waitIfNeeded call returned
    eFile,       \* the price list on disk: readable or not, and its rows
    eHeap,       \* the Product[] arrays allocated so far, by reference
    eProducts,   \* ExcelService.products: a reference into eHeap
    eLastLoad,   \* ExcelService.lastLoad: a time, or -1 for null
    eNow,        \* Date.now(), in milliseconds
    eHeld,       \* the lists getProducts handed out: reference and content then
    eLast,       \* the last call of loadProducts/getProducts and the state before it
    gPc,         \* intelligentSearch(): "idle", "call" (arguments bound) or
                 \*   "llm" (awaiting fetch inside getGeminiRecommendations)
    gApiKey,     \* RAGService.API_KEY is a non-empty string
    gAvailable,  \* RAGService.geminiAvailable
    gQuery,      \* intelligentSearch(): query
    gProducts,   \* intelligentSearch(): allProducts
    gFound,      \* per query, how many products the local search finds in gProducts
    gLast        \* the last intelligentSearch() call that returned

orderVars == <<orders, lastOp>>
searchVars == <<sPc, sQuery, sProducts, sOptions, sStrategies, sResults>>
aiVars == <<aPc, aMessage, aProducts, aApiKey, aRequests, aIdx, aCandidates,
            aMatches, aClar, aLog, aResult>>
textVars == <<tPc, tKind, tInput, tOnce, tTwice, tParts>>
helperVars == <<hPc, hKind, hQuery, hProducts, hOut>>
\* the components added to the model after the four above
limiterVars == <<rNow, rEntry, rSleeping, rProceeded>>
excelVars == <<eFile, eHeap, eProducts, eLastLoad, eNow, eHeld, eLast>>
ragVars == <<gPc, gApiKey, gAvailable, gQuery, gProducts, gFound, gLast>>
otherVars == <<helperVars, limiterVars, excelVars, ragVars>>
vars == <<orders, lastOp, sPc, sQuery, sProducts, sOptions, sStrategies,
          sResults, aPc, aMessage, aProducts, aApiKey, aRequests, aIdx,
          aCandidates, aMatches, aClar, aLog, aResult,
          tPc, tKind, tInput, tOnce, tTwice, tParts,
          hPc, hKind, hQuery, hProducts, hOut,
          rNow, rEntry, rSleeping, rProceeded,
          eFile, eHeap, eProducts, eLastLoad, eNow, eHeld, eLast,
          gPc, gApiKey, gAvailable, gQuery, gProducts, gFound, gLast>>

NoOptions == SearchOptions(FALSE, 0, FALSE, rat(0, 1), FALSE)

\* no OrderService call made yet
IdleOrder ==
    /\ orders = [c \in {} |-> 0]
    /\ lastOp = [op |-> "none", customer |-> NULL]

\* the AIOrderResult before processOrder returned
NoResult ==
    [returned |-> FALSE, matches |-> <<>>, needsClarification |-> FALSE,
     hasOptions |-> FALSE, options |-> <<>>]

\* no processOrder() call in progress
IdleAI ==
    /\ aPc = "idle"
    /\ aMessage = ""
    /\ aProducts = <<>>
    /\ aApiKey = FALSE
    /\ aRequests = <<>>
    /\ aIdx = 0
    /\ aCandidates = <<>>
    /\ aMatches = <<>>
    /\ aClar = <<>>
    /\ aLog = <<>>
    /\ aResult = NoResult

\* no text helper called on its own
IdleText ==
    /\ tPc = "idle"
    /\ tKind = "none"
    /\ tInput = <<>>
    /\ tOnce = <<>>
    /\ tTwice = <<>>
    /\ tParts = <<>>

\* no private helper called on its own
IdleHelper ==
    /\ hPc = "idle"
    /\ hKind = "none"
    /\ hQuery = <<>>
    /\ hProducts = <<>>
    /\ hOut = <<>>

\* limits.get(userId) of a key that is not in the map
NoEntry == [has |-> FALSE, count |-> 0, resetTime |-> 0]

\* no rate-limited caller yet
IdleLimiter ==
    /\ rNow = 0
    /\ rEntry = NoEntry
    /\ rSleeping = <<>>
    /\ rProceeded = <<>>

\* a price list that readFileSync or XLSX cannot deliver
Unreadable == [readable |-> FALSE, rows |-> <<>>]

\* a price list whose sheet holds the given rows
Sheet(rows) == [readable |-> TRUE, rows |-> rows]

\* ExcelService as constructed: products = [], lastLoad = null
NewExcelService ==
    /\ eHeap = << <<>> >>
    /\ eProducts = 1
    /\ eLastLoad = -1
    /\ eNow = 0
    /\ eHeld = <<>>
    /\ eLast = [op |-> "none", ok |-> TRUE, products |-> 1, content |-> <<>>,
                lastLoad |-> -1]

\* no catalog request yet
IdleExcel == eFile = Sheet(<<>>) /\ NewExcelService

\* what is recorded of an intelligentSearch() call: whether the fetch was
\* issued, how it ended, where the answer came from, how many products
RagCall(query, fetched, outcome, answer, found) ==
    [query |-> query, fetched |-> fetched, outcome |-> outcome,
     answer |-> answer, found |-> found]

NoRagCall == RagCall("", FALSE, "none", "none", 0)

\* RAGService as constructed, no intelligentSearch() call yet
NewRagService ==
    /\ gPc = "idle"
    /\ gAvailable = TRUE
    /\ gQuery = ""
    /\ gLast = NoRagCall

IdleRag == NewRagService /\ gApiKey = FALSE /\ gProducts = <<>> /\ gFound = <<>>

IdleOthers == IdleHelper /\ IdleLimiter /\ IdleExcel /\ IdleRag

\* no search() call in progress
IdleSearch ==
    /\ sPc = "idle"
    /\ sQuery = ""
    /\ sProducts = <<>>
    /\ sOptions = NoOptions
    /\ sStrategies = <<>>
    /\ sResults = <<>>

(***************************************************************************)
(* OrderService (src/src/services/order.service.ts).                       *)
(***************************************************************************)
RECURSIVE sumSubtotals(_)
sumSubtotals(items) ==
    IF items = <<>> THEN 0
    ELSE sumSubtotals(SubSeq(items, 1, Len(items) - 1))
         + items[Len(items)].product.ventas * items[Len(items)].quantity

\* OrderService.updateTotal: reduce over the items, starting from 0
updateTotal(order) == [order EXCEPT !.total = sumSubtotals(order.items)]

\* the order createOrder stores
newOrder(customerPhone) ==
    [items |-> <<>>, total |-> 0, customerPhone |-> customerPhone,
     status |-> "pending"]

\* index of the first line with this description, 0 when there is none
\* (Array.prototype.find)
findItem(items, descripcion) ==
    IF \E i \in 1..Len(items) : items[i].product.descripcion = descripcion
    THEN CHOOSE i \in 1..Len(items) :
            /\ items[i].product.descripcion = descripcion
            /\ \A j \in 1..(i - 1) : items[j].product.descripcion # descripcion
    ELSE 0

\* addItem that always pushes a new line
addItemTo_AlwaysPush(order, item) ==
    updateTotal([order EXCEPT !.items = Append(order.items, item)])

\* the body of addItem on the order it fetched or created
addItemTo(order, item) ==
    LET k == findItem(order.items, item.product.descripcion)
        items2 == IF k # 0
                  THEN [order.items EXCEPT ![k].quantity = @ + item.quantity]
                  ELSE Append(order.items, item)
    IN  updateTotal([order EXCEPT !.items = items2])

\* removeItem that forgets to recompute the total
removeItemFrom_StaleTotal(order, productName) ==
    [order EXCEPT !.items =
        SelectSeq(order.items, LAMBDA i : i.product.descripcion # productName)]

\* the body of removeItem on the order it fetched
removeItemFrom(order, productName) ==
    updateTotal([order EXCEPT !.items =
        SelectSeq(order.items, LAMBDA i : i.product.descripcion # productName)])

\* Map.prototype.set / delete on a map kept as a function over its keys
mapSet(m, k, v) == [x \in (DOMAIN m) \cup {k} |-> IF x = k THEN v ELSE m[x]]

\* Map.prototype.clear in the place of delete
mapDelete_Clear(m, k) == [x \in {} |-> 0]

mapDelete(m, k) == [x \in (DOMAIN m) \ {k} |-> m[x]]

\* OrderService.getOrder is defined exactly on the keys of the map
hasOrder(c) == c \in DOMAIN orders

createOrder(c) ==
    /\ orders' = mapSet(orders, c, newOrder(c))
    /\ lastOp' = [op |-> "createOrder", customer |-> c]

\* the quantity a line may reach is capped at MaxQty to keep the model finite
addItem(c, p, q) ==
    LET order == IF hasOrder(c) THEN orders[c] ELSE newOrder(c)
        k     == findItem(order.items, p.descripcion)
    IN  /\ (IF k = 0 THEN q ELSE order.items[k].quantity + q) <= MaxQty
        /\ orders' = mapSet(orders, c,
                            addItemTo(order, [product |-> p, quantity |-> q]))
        /\ lastOp' = [op |-> "addItem", customer |-> c]

removeItem(c, name) ==
    /\ orders' = IF hasOrder(c)
                 THEN mapSet(orders, c, removeItemFrom(orders[c], name))
                 ELSE orders
    /\ lastOp' = [op |-> "removeItem", customer |-> c]

clearOrder(c) ==
    /\ orders' = mapDelete(orders, c)
    /\ lastOp' = [op |-> "clearOrder", customer |-> c]

\* confirmOrder marks the order confirmed, hands it to the history file and
\* deletes it from the map (nothing happens when there is no order)
confirmOrder(c) ==
    /\ orders' = mapDelete(orders, c)
    /\ lastOp' = [op |-> "confirmOrder", customer |-> c]

\* finalizeOrderFlow (src/src/flows/smart-order.flow.ts, lines 264-308): the
\* customer was shown a non-empty cart and answers the question
\* "¿Confirmas? (SÍ/NO)".  'si', 'sí' or 'yes' marks the order confirmed and
\* clears it; any other answer replies "Cancelado" and touches nothing.
finalizeReply(c, confirms) ==
    /\ hasOrder(c)
    /\ orders[c].items # <<>>
    /\ orders' = IF confirms THEN mapDelete(orders, c) ELSE orders
    /\ lastOp' = [op |-> IF confirms THEN "finalizeConfirm" ELSE "finalizeCancel",
                  customer |-> c]

InitOrder == IdleOrder /\ IdleSearch /\ IdleAI /\ IdleText /\ IdleOthers

NextOrder ==
    /\ \/ \E c \in Customers : createOrder(c)
       \/ \E c \in Customers, i \in 1..Len(OrderPool), q \in AddQuantities :
             addItem(c, OrderPool[i], q)
       \/ \E c \in Customers, i \in 1..Len(OrderPool) :
             removeItem(c, OrderPool[i].descripcion)
       \/ \E c \in Customers : clearOrder(c)
       \/ \E c \in Customers : confirmOrder(c)
       \/ \E c \in Customers : finalizeReply(c, TRUE)
       \/ \E c \in Customers : finalizeReply(c, FALSE)
    /\ UNCHANGED <<searchVars, aiVars, textVars, otherVars>>

SpecOrder == InitOrder /\ [][NextOrder]_vars

(***************************************************************************)
(* Stand-alone calls of search(): the arguments are drawn up front, the    *)
(* call computes the result.                                               *)
(***************************************************************************)
\* a product only the fuzzy strategy finds for the query below, with the
\* score ((12/17 + 5/7 + 5/7) / 5) * 0.7, just under 0.3
Antitranspirante == Product("ANTITRANSPIRANTES BALANCE CLINICO", 9800, "Aseo")

\* the product of the documented search tests: no keywords, no category
ArrozDianaBare == BareProduct("ARROZ DIANA 500G", 3500)

\* a product of the same category that none of the text strategies finds for
\* the query 'aseo valance clinica'
JabonRey == Product("JABON REY", 1800, "Aseo")

SearchPool ==
    <<ArrozDiana500, ArrozRoa1Kg, LecheAlpina, ArrozDiana500Bis, ArrozDianaMixed>>

SearchQueries ==
    {"arroz diana 500g", "Arroz Diana", "arros diana", "arroz diana barato",
     "leche alpina deslactosada", "arro", "granos", "",
     "transpirante valanze klinica para hombre", "aseo valance clinica"}

\* catalogs: up to MaxCatalog different rows of the pool, in any order
RECURSIVE CatalogsOfLen(_)
CatalogsOfLen(n) ==
    IF n = 0 THEN {<<>>}
    ELSE {Append(c, SearchPool[i]) :
            c \in CatalogsOfLen(n - 1),
            i \in 1..Len(SearchPool)}

distinctRows(c) == \A i, j \in 1..Len(c) : c[i] = c[j] => i = j

\* and three catalogs outside the pool
SearchCatalogs ==
    {c \in UNION {CatalogsOfLen(n) : n \in 0..MaxCatalog} : distinctRows(c)}
    \cup {<<ArrozDianaBare>>, <<Antitranspirante>>, <<JabonRey, Antitranspirante>>}

\* the two queries about the toiletries shelf are asked of the catalogs that
\* hold that shelf, of the bare rice row and of the empty catalog
AseoQueries ==
    {"transpirante valanze klinica para hombre", "aseo valance clinica"}

AseoCatalogs ==
    {<<>>, <<ArrozDianaBare>>, <<Antitranspirante>>, <<JabonRey, Antitranspirante>>}

catalogsFor(query) ==
    IF query \in AseoQueries THEN AseoCatalogs ELSE SearchCatalogs

SearchOptionSets ==
    {SearchOptions(hasMax, IF hasMax THEN 1 ELSE 0, hasMin, minScore, cats) :
        hasMax \in BOOLEAN, hasMin \in BOOLEAN,
        minScore \in {rat(0, 1), rat(1, 2)}, cats \in BOOLEAN}

InitSearch ==
    /\ IdleOrder
    /\ IdleAI
    /\ IdleText
    /\ IdleOthers
    /\ sPc = "call"
    /\ sQuery \in SearchQueries
    /\ sProducts \in catalogsFor(sQuery)
    /\ sOptions \in {o \in SearchOptionSets : o.hasMinScore \/ o.minScore = rat(0, 1)}
    /\ sStrategies = <<>>
    /\ sResults = <<>>

doSearch ==
    /\ sPc = "call"
    /\ sPc' = "done"
    /\ sStrategies' = allStrategyResults(sQuery, sProducts, sOptions)
    /\ sResults' = search(sQuery, sProducts, sOptions)
    /\ UNCHANGED <<sQuery, sProducts, sOptions>>

NextSearch == doSearch /\ UNCHANGED <<orderVars, aiVars, textVars, otherVars>>

SpecSearch == InitSearch /\ [][NextSearch]_vars

(***************************************************************************)
(* AIOrderService.processOrder (src/src/services/ai-order.service.ts,      *)
(* lines 380-576).  The only suspension point with an outcome the service  *)
(* does not control is the fetch inside getAIRecommendation.               *)
(***************************************************************************)
\* search(request, allProducts, {maxResults: 10, minScore: 0.5})
OrderSearchOptions == SearchOptions(TRUE, 10, TRUE, rat(1, 2), FALSE)

candidatesFor(request, allProducts) ==
    bind(search(request, allProducts, OrderSearchOptions), LAMBDA searchResults :
        [i \in 1..Len(searchResults) |-> searchResults[i].product])

AIOrderMatch(product, quantity, confidence, autoSelected) ==
    [product |-> product, quantity |-> quantity, confidence |-> confidence,
     autoSelected |-> autoSelected]

\* what the fetch and the reply can turn out to be; id is the selectedId of
\* a reply that carries a numeric one
LLMOutcome(kind, id) == [kind |-> kind, id |-> id]

LLMFailureKinds ==
    {"non_2xx", "timeout", "network_error", "no_candidates_in_body",
     "no_json_in_text", "invalid_json", "selectedId_missing", "selectedId_string"}

LLMOutcomes(n) ==
    {LLMOutcome(k, rat(0, 1)) : k \in LLMFailureKinds}
    \cup {LLMOutcome("selectedId_number", <<i, 1>>) : i \in -1..n}
    \cup {LLMOutcome("selectedId_number", <<1, 2>>),
          LLMOutcome("selectedId_number", <<2 * n - 1, 2>>)}

\* the try block of getAIRecommendation: it throws, or returns a value
\* ("product" with the index of the candidate, "null" or "undefined")
recommendationTry(candidates, outcome) ==
    IF outcome.kind \in {"non_2xx", "timeout", "network_error",
                         "no_candidates_in_body", "no_json_in_text", "invalid_json"}
    THEN [tag |-> "throw", index |-> 0]
    ELSE IF /\ outcome.kind = "selectedId_number"      \* typeof === 'number'
            /\ ratGeq(outcome.id, rat(0, 1))
            /\ ratLess(outcome.id, rat(Len(candidates), 1))
         THEN \* candidates[selectedId]: undefined unless selectedId is an index
              IF outcome.id[2] = 1
              THEN [tag |-> "product", index |-> outcome.id[1] + 1]
              ELSE [tag |-> "undefined", index |-> 0]
         ELSE [tag |-> "null", index |-> 0]

\* AIOrderService.getAIRecommendation: the catch turns every throw into null
getAIRecommendation(candidates, outcome) ==
    LET r == recommendationTry(candidates, outcome)
    IN  IF r.tag = "throw" THEN [tag |-> "null", index |-> 0] ELSE r

\* no fetch was issued for the sub-request
NoLLM == LLMOutcome("none", rat(0, 1))

LogEntry(candidates, llm, returned, resolution, match) ==
    [candidates |-> candidates, llm |-> llm, returned |-> returned,
     resolution |-> resolution, match |-> match]

\* processSingleRequest with exactly one candidate
singleMatch_AutoSelected(request, candidates) ==
    AIOrderMatch(candidates[1], quantityOrOne(request), rat(95, 100), TRUE)

singleMatch(request, candidates) ==
    AIOrderMatch(candidates[1], quantityOrOne(request), rat(95, 100), FALSE)

\* the return statements of processOrder after the loop
orderResult_ClarifyWhenEmpty(allMatches, needsClarification) ==
    IF Len(allMatches) = 0
    THEN [returned |-> TRUE, matches |-> <<>>, needsClarification |-> TRUE,
          hasOptions |-> TRUE, options |-> needsClarification]
    ELSE [returned |-> TRUE, matches |-> allMatches,
          needsClarification |-> FALSE, hasOptions |-> FALSE, options |-> <<>>]

orderResult(allMatches, needsClarification) ==
    IF Len(allMatches) = 0 /\ Len(needsClarification) > 0
    THEN [returned |-> TRUE, matches |-> <<>>, needsClarification |-> TRUE,
          hasOptions |-> TRUE, options |-> needsClarification]
    ELSE [returned |-> TRUE, matches |-> allMatches,
          needsClarification |-> FALSE, hasOptions |-> FALSE, options |-> <<>>]

\* the branch of the for loop in processOrder for a result without a match:
\* {needsChoice: true, options}
settleChoice(request, options) ==
    IF needsUserChoice(options)
    THEN /\ aClar' = aClar \o sliceTo(options, 4)
         /\ aMatches' = aMatches
    ELSE /\ aMatches' = Append(aMatches,
                AIOrderMatch(selectSmallestOrMostCommon(options),
                             quantityOrOne(request), rat(85, 100), TRUE))
         /\ aClar' = aClar

choiceResolution(options) ==
    IF needsUserChoice(options) THEN "clarify" ELSE "heuristic"

InitAI ==
    /\ IdleOrder
    /\ IdleSearch
    /\ IdleText
    /\ IdleOthers
    /\ aPc = "call"
    /\ aMessage \in AIMessages
    /\ aProducts \in AICatalogs
    /\ aApiKey \in BOOLEAN
    /\ aRequests = <<>>
    /\ aIdx = 0
    /\ aCandidates = <<>>
    /\ aMatches = <<>>
    /\ aClar = <<>>
    /\ aLog = <<>>
    /\ aResult = NoResult

\* processOrder up to the for loop
aiStart ==
    /\ aPc = "call"
    /\ aPc' = "loop"
    /\ aRequests' = splitRequests(Chars(aMessage))
    /\ aIdx' = 1
    /\ UNCHANGED <<aMessage, aProducts, aApiKey, aCandidates, aMatches, aClar,
                   aLog, aResult>>

\* one iteration of the for loop, up to the fetch when there is one
aiRequest ==
    /\ aPc = "loop"
    /\ aIdx <= Len(aRequests)
    /\ LET request == aRequests[aIdx]
       IN  \E candidates \in {candidatesFor(request, aProducts)} :
           /\ aCandidates' = candidates
           /\ IF Len(candidates) = 0
              THEN /\ aLog' = Append(aLog, LogEntry(candidates, NoLLM, "none", "notfound", 0))
                   /\ UNCHANGED <<aMatches, aClar>>
                   /\ aIdx' = aIdx + 1 /\ aPc' = "loop"
              ELSE IF Len(candidates) = 1
              THEN /\ aMatches' = Append(aMatches, singleMatch(request, candidates))
                   /\ aLog' = Append(aLog, LogEntry(candidates, NoLLM, "none",
                                                    "single", Len(aMatches) + 1))
                   /\ UNCHANGED aClar
                   /\ aIdx' = aIdx + 1 /\ aPc' = "loop"
              ELSE IF Len(candidates) <= 5 /\ aApiKey
              THEN \* getAIRecommendation awaits fetch
                   /\ aPc' = "llm"
                   /\ UNCHANGED <<aMatches, aClar, aLog, aIdx>>
              ELSE LET options == IF Len(candidates) <= 5 THEN candidates
                                  ELSE sliceTo(candidates, 5)
                   IN  /\ settleChoice(request, options)
                       /\ aLog' = Append(aLog,
                              LogEntry(candidates, NoLLM, "none",
                                       choiceResolution(options),
                                       IF needsUserChoice(options) THEN 0
                                       ELSE Len(aMatches) + 1))
                       /\ aIdx' = aIdx + 1 /\ aPc' = "loop"
    /\ UNCHANGED <<aMessage, aProducts, aApiKey, aRequests, aResult>>

\* the fetch settles; the rest of getAIRecommendation, of processSingleRequest
\* and of the loop iteration follow
aiLlmReply(outcome) ==
    /\ aPc = "llm"
    /\ LET request == aRequests[aIdx]
           aiChoice == getAIRecommendation(aCandidates, outcome)
       IN  IF aiChoice.tag = "product"
           THEN /\ aMatches' = Append(aMatches,
                       AIOrderMatch(aCandidates[aiChoice.index],
                                    quantityOrOne(request), rat(90, 100), TRUE))
                /\ aLog' = Append(aLog, LogEntry(aCandidates, outcome,
                                                 aiChoice.tag, "ai", Len(aMatches) + 1))
                /\ UNCHANGED aClar
           ELSE /\ settleChoice(request, aCandidates)
                /\ aLog' = Append(aLog,
                       LogEntry(aCandidates, outcome, aiChoice.tag,
                                choiceResolution(aCandidates),
                                IF needsUserChoice(aCandidates) THEN 0
                                ELSE Len(aMatches) + 1))
    /\ aIdx' = aIdx + 1
    /\ aPc' = "loop"
    /\ UNCHANGED <<aMessage, aProducts, aApiKey, aRequests, aCandidates, aResult>>

\* processOrder after the loop
aiReturn ==
    /\ aPc = "loop"
    /\ aIdx > Len(aRequests)
    /\ aPc' = "done"
    /\ aResult' = orderResult(aMatches, aClar)
    /\ UNCHANGED <<aMessage, aProducts, aApiKey, aRequests, aIdx, aCandidates,
                   aMatches, aClar, aLog>>

NextAI ==
    /\ \/ aiStart
       \/ aiRequest
       \/ \E o \in LLMOutcomes(Len(aCandidates)) : aiLlmReply(o)
       \/ aiReturn
    /\ UNCHANGED <<orderVars, searchVars, textVars, otherVars>>

SpecAI == InitAI /\ [][NextAI]_vars

(***************************************************************************)
(* The text helpers called on their own: SmartSearchService.normalizeText  *)
(* on every text of up to MaxText characters of a small alphabet, and      *)
(* AIOrderService.splitRequests on utterances of up to MaxWords words.     *)
(***************************************************************************)
TextAlphabet == {"A", "É", "ñ", "z", "7", " ", "\t", ","}

RECURSIVE TextsOfLen(_)
TextsOfLen(n) ==
    IF n = 0 THEN {<<>>}
    ELSE {Append(t, c) : t \in TextsOfLen(n - 1), c \in TextAlphabet}

NormalizeInputs == UNION {TextsOfLen(n) : n \in 0..MaxText}

UtteranceWords == {Chars("arroz"), Chars("pan"), Chars("y"), Chars("2")}
UtteranceSeparators == {<<" ">>, <<"\n">>}

\* words joined by one blank or one newline each
RECURSIVE UtterancesOfWords(_)
UtterancesOfWords(n) ==
    IF n = 1 THEN UtteranceWords
    ELSE {u \o sep \o w : u \in UtterancesOfWords(n - 1),
                          sep \in UtteranceSeparators, w \in UtteranceWords}

SplitInputs ==
    UNION {UtterancesOfWords(n) : n \in 1..MaxWords}
    \cup {Chars("2 arroces y aceite de litro"), Chars("Pan Y Queso crema")}

InitText ==
    /\ IdleOrder
    /\ IdleSearch
    /\ IdleAI
    /\ IdleOthers
    /\ tPc = "call"
    /\ \/ tKind = "normalizeText" /\ tInput \in NormalizeInputs
       \/ tKind = "splitRequests" /\ tInput \in SplitInputs
    /\ tOnce = <<>>
    /\ tTwice = <<>>
    /\ tParts = <<>>

normalizeOnce ==
    /\ tPc = "call"
    /\ tKind = "normalizeText"
    /\ tPc' = "once"
    /\ tOnce' = normalizeText(tInput)
    /\ UNCHANGED <<tKind, tInput, tTwice, tParts>>

normalizeAgain ==
    /\ tPc = "once"
    /\ tPc' = "done"
    /\ tTwice' = normalizeText(tOnce)
    /\ UNCHANGED <<tKind, tInput, tOnce, tParts>>

splitUtterance ==
    /\ tPc = "call"
    /\ tKind = "splitRequests"
    /\ tPc' = "done"
    /\ tParts' = splitRequests(tInput)
    /\ UNCHANGED <<tKind, tInput, tOnce, tTwice>>

NextText ==
    /\ \/ normalizeOnce
       \/ normalizeAgain
       \/ splitUtterance
    /\ UNCHANGED <<orderVars, searchVars, aiVars, otherVars>>

SpecText == InitText /\ [][NextText]_vars

(***************************************************************************)
(* Private helpers called on their own: needsUserChoice and                *)
(* selectSmallestOrMostCommon of AIOrderService, keywordSearch and          *)
(* fuzzySearch of SmartSearchService.  The arguments are drawn up front,   *)
(* the call computes the result.                                            *)
(***************************************************************************)
\* an option of a given price; needsUserChoice reads nothing but ventas
Option(v) == BareProduct("OPCION", v)

\* prices around the factor two: 2000 = 2 x 1000, 2001 is just above
OptionPrices == {1000, 2000, 2001}

RECURSIVE OptionLists(_)
OptionLists(n) ==
    IF n = 0 THEN {<<>>}
    ELSE {Append(l, Option(v)) : l \in OptionLists(n - 1), v \in OptionPrices}

ChoiceInputs == UNION {OptionLists(n) : n \in 0..MaxOptions}

\* descriptions with and without a package size, as they stand in the sheet
SizePool ==
    << BareProduct("GALLETAS 6X200G", 5200),
       BareProduct("GALLETAS 500G", 2400),
       BareProduct("YOGURT 6X200GR", 9000),
       BareProduct("ARROZ 1KG", 4800),
       BareProduct("ARROZ 1 LB", 2600),
       BareProduct("LECHE 1L", 4200),
       BareProduct("GASEOSA 1.5L", 5500),
       BareProduct("PAN TAJADO", 3900),
       BareProduct("PAN BLANCO", 3000) >>

RECURSIVE SizeLists(_)
SizeLists(n) ==
    IF n = 0 THEN {<<>>}
    ELSE {Append(l, SizePool[i]) : l \in SizeLists(n - 1), i \in 1..Len(SizePool)}

\* candidate lists: one product or more, without repetition
SelectInputs ==
    {l \in UNION {SizeLists(n) : n \in 1..MaxCandidates} : distinctRows(l)}

\* queries as the strategies receive them: already normalised
StrategyQueries ==
    {Chars("arroz"), Chars("arroz diana"), Chars("arroz diana 500g"),
     Chars("a"), Chars("arros diana"), Chars("arros diana granos"),
     Chars("leche entera"), <<>>}

InitHelper ==
    /\ IdleOrder
    /\ IdleSearch
    /\ IdleAI
    /\ IdleText
    /\ IdleLimiter
    /\ IdleExcel
    /\ IdleRag
    /\ hPc = "call"
    /\ hOut = <<>>
    /\ \/ /\ hKind = "needsUserChoice"
          /\ hQuery = <<>>
          /\ hProducts \in ChoiceInputs
       \/ /\ hKind = "selectSmallestOrMostCommon"
          /\ hQuery = <<>>
          /\ hProducts \in SelectInputs
       \/ /\ hKind \in {"keywordSearch", "fuzzySearch"}
          /\ hQuery \in StrategyQueries
          /\ hProducts \in SearchCatalogs

callHelper(kind, result) ==
    /\ hPc = "call"
    /\ hKind = kind
    /\ hPc' = "done"
    /\ hOut' = result
    /\ UNCHANGED <<hKind, hQuery, hProducts>>

callNeedsUserChoice == callHelper("needsUserChoice", needsUserChoice(hProducts))

callSelectSmallest ==
    callHelper("selectSmallestOrMostCommon", selectSmallestOrMostCommon(hProducts))

callKeywordSearch == callHelper("keywordSearch", keywordSearch(hQuery, hProducts))

callFuzzySearch == callHelper("fuzzySearch", fuzzySearch(hQuery, hProducts))

NextHelper ==
    /\ \/ callNeedsUserChoice
       \/ callSelectSmallest
       \/ callKeywordSearch
       \/ callFuzzySearch
    /\ UNCHANGED <<orderVars, searchVars, aiVars, textVars, limiterVars, excelVars,
                   ragVars>>

SpecHelper == InitHelper /\ [][NextHelper]_vars

(***************************************************************************)
(* RateLimiterService (src/src/services/rate-limiter.service.ts), one key: *)
(* every caller of the repository uses the default 'global'.               *)
(***************************************************************************)
MAX_REQUESTS_PER_MINUTE == 15
WINDOW_MS == 60 * 1000

\* the values Date.now() takes while the callers run
ClockReadings == {0, WINDOW_MS, WINDOW_MS + 100, WINDOW_MS + 101}

\* canMakeRequest: no entry, or the window of the entry is over
startsWindow == ~rEntry.has \/ rNow > rEntry.resetTime

\* canMakeRequest returns false
limitReached == ~startsWindow /\ rEntry.count >= MAX_REQUESTS_PER_MINUTE

\* getTimeUntilReset
getTimeUntilReset ==
    IF ~rEntry.has THEN 0
    ELSE IF rEntry.resetTime - rNow > 0 THEN rEntry.resetTime - rNow ELSE 0

callers == Len(rProceeded) + Len(rSleeping)

\* waitIfNeeded, canMakeRequest returning true: the call returns at once
waitIfNeededAdmitted ==
    /\ callers < MaxCallers
    /\ ~limitReached
    /\ rEntry' = IF startsWindow
                 THEN [has |-> TRUE, count |-> 1, resetTime |-> rNow + WINDOW_MS]
                 ELSE [rEntry EXCEPT !.count = @ + 1]
    /\ rProceeded' = Append(rProceeded, rNow)
    /\ UNCHANGED <<rNow, rSleeping>>

\* waitIfNeeded, canMakeRequest returning false: setTimeout(waitTime + 100)
waitIfNeededBlocked ==
    /\ callers < MaxCallers
    /\ limitReached
    /\ rSleeping' = Append(rSleeping, rNow + getTimeUntilReset + 100)
    /\ UNCHANGED <<rNow, rEntry, rProceeded>>

\* the timer of a blocked call fires: limits.delete(userId), the call returns
wakeUp(i) ==
    /\ rSleeping[i] <= rNow
    /\ rEntry' = NoEntry
    /\ rSleeping' = SubSeq(rSleeping, 1, i - 1) \o SubSeq(rSleeping, i + 1, Len(rSleeping))
    /\ rProceeded' = Append(rProceeded, rNow)
    /\ UNCHANGED rNow

\* cleanup, run by setInterval: an expired entry is deleted
cleanup ==
    /\ rEntry.has
    /\ rNow > rEntry.resetTime
    /\ rEntry' = NoEntry
    /\ UNCHANGED <<rNow, rSleeping, rProceeded>>

\* time passes
tick ==
    /\ \E t \in ClockReadings : t > rNow /\ rNow' = t
    /\ UNCHANGED <<rEntry, rSleeping, rProceeded>>

InitLimiter ==
    /\ IdleOrder
    /\ IdleSearch
    /\ IdleAI
    /\ IdleText
    /\ IdleHelper
    /\ IdleLimiter
    /\ IdleExcel
    /\ IdleRag

NextLimiter ==
    /\ \/ waitIfNeededAdmitted
       \/ waitIfNeededBlocked
       \/ \E i \in 1..Len(rSleeping) : wakeUp(i)
       \/ cleanup
       \/ tick
    /\ UNCHANGED <<orderVars, searchVars, aiVars, textVars, helperVars, excelVars,
                   ragVars>>

SpecLimiter == InitLimiter /\ [][NextLimiter]_vars

(***************************************************************************)
(* ExcelService.loadProducts / getProducts                                 *)
(* (src/src/services/excel.service.ts).  Arrays are kept in a heap so that *)
(* a list handed out and the list the service holds can be told apart.     *)
(***************************************************************************)
cacheTime == 5 * 60 * 1000

\* a row without a price, which the loader drops
SinPrecio == Product("BOLSA PLASTICA", 0, "General")

\* the states of the price list on disk
Sheets ==
    { Sheet(<<ArrozDiana500, ArrozRoa1Kg>>),
      Sheet(<<LecheAlpina, SinPrecio, ArrozDiana500>>),
      Sheet(<<>>),
      Unreadable }

ExcelClock == {0, cacheTime, cacheTime + 1}

\* data.map(...).filter(p => p.descripcion && p.ventas > 0)
loadedRows(rows) == SelectSeq(rows, LAMBDA p : p.descripcion # "" /\ p.ventas > 0)

\* a reload that refills the array the service already holds
storeLoaded_InPlace(heap, ref, list) ==
    [heap |-> [heap EXCEPT ![ref] = list], ref |-> ref]

\* this.products = <the array map and filter built>: a new array
storeLoaded(heap, ref, list) ==
    [heap |-> Append(heap, list), ref |-> Len(heap) + 1]

\* the state a call finds, kept to compare with the state it leaves
excelBefore(op, ok) ==
    [op |-> op, ok |-> ok, products |-> eProducts, content |-> eHeap[eProducts],
     lastLoad |-> eLastLoad]

\* the body of loadProducts when nothing throws
loaded ==
    /\ eFile.readable
    /\ Len(eHeap) <= MaxLoads
    /\ \E st \in {storeLoaded(eHeap, eProducts, loadedRows(eFile.rows))} :
          /\ eHeap' = st.heap
          /\ eProducts' = st.ref
    /\ eLastLoad' = eNow

\* the body of loadProducts when readFileSync, XLSX.read or the sheet lookup
\* throws: the catch block rethrows
loadThrows ==
    /\ ~eFile.readable
    /\ UNCHANGED <<eHeap, eProducts, eLastLoad>>

\* getProducts: the cache is missing or older than cacheTime
cacheExpired == eLastLoad = -1 \/ eNow - eLastLoad > cacheTime

\* loadProducts called on its own (start-up, the reload endpoint)
loadProductsOk ==
    /\ loaded
    /\ eLast' = excelBefore("loadProducts", TRUE)
    /\ UNCHANGED <<eFile, eNow, eHeld>>

loadProductsFails ==
    /\ loadThrows
    /\ eLast' = excelBefore("loadProducts", FALSE)
    /\ UNCHANGED <<eFile, eNow, eHeld>>

\* getProducts with a fresh cache: return this.products
getProductsCached ==
    /\ ~cacheExpired
    /\ Len(eHeld) < MaxReaders
    /\ eHeld' = Append(eHeld, [ref |-> eProducts, seen |-> eHeap[eProducts]])
    /\ eLast' = excelBefore("getProducts", TRUE)
    /\ UNCHANGED <<eFile, eHeap, eProducts, eLastLoad, eNow>>

\* getProducts with an expired cache: loadProducts, then return this.products
getProductsReloads ==
    /\ cacheExpired
    /\ Len(eHeld) < MaxReaders
    /\ loaded
    /\ eHeld' = Append(eHeld, [ref |-> eProducts', seen |-> eHeap'[eProducts']])
    /\ eLast' = excelBefore("getProducts", TRUE)
    /\ UNCHANGED <<eFile, eNow>>

\* getProducts with an expired cache and a reload that throws
getProductsFails ==
    /\ cacheExpired
    /\ loadThrows
    /\ eLast' = excelBefore("getProducts", FALSE)
    /\ UNCHANGED <<eFile, eNow, eHeld>>

\* the price list is replaced on disk
saveSheet(f) ==
    /\ f # eFile
    /\ eFile' = f
    /\ UNCHANGED <<eHeap, eProducts, eLastLoad, eNow, eHeld, eLast>>

\* time passes
tickExcel ==
    /\ \E t \in ExcelClock : t > eNow /\ eNow' = t
    /\ UNCHANGED <<eFile, eHeap, eProducts, eLastLoad, eHeld, eLast>>

InitExcel ==
    /\ IdleOrder
    /\ IdleSearch
    /\ IdleAI
    /\ IdleText
    /\ IdleHelper
    /\ IdleLimiter
    /\ IdleRag
    /\ eFile \in Sheets
    /\ NewExcelService

NextExcel ==
    /\ \/ loadProductsOk
       \/ loadProductsFails
       \/ getProductsCached
       \/ getProductsReloads
       \/ getProductsFails
       \/ \E f \in Sheets : saveSheet(f)
       \/ tickExcel
    /\ UNCHANGED <<orderVars, searchVars, aiVars, textVars, helperVars, limiterVars,
                   ragVars>>

SpecExcel == InitExcel /\ [][NextExcel]_vars

(***************************************************************************)
(* RAGService.intelligentSearch with its fallback                          *)
(* (src/src/services/order.service.ts, lines 233-419).                     *)
(***************************************************************************)
RagQueries == {"arroz", "arros diana", "leche", "pan tajado"}

RagCatalogs ==
    {<<>>, <<ArrozDiana500, ArrozRoa1Kg>>, <<LecheAlpina>>,
     <<ArrozDiana500, ArrozRoa1Kg, LecheAlpina>>}

\* how the fetch of getGeminiRecommendations can end: a usable reply, a
\* non-2xx status, the abort after TIMEOUT, a body JSON.parse rejects
RagOutcomes == {"ok", "http", "timeout", "unparseable"}

\* smartSearchService.search(query, allProducts, {maxResults: 20, includeCategories: true})
\* of searchWithGemini: how many results
geminiCandidates(query, products) ==
    Len(search(query, products, SearchOptions(TRUE, 20, FALSE, rat(0, 1), TRUE)))

\* RAGService.fallbackSearch: how many products the answer carries
fallbackFound(query, products) ==
    Len(sliceTo(search(query, products,
                       SearchOptions(TRUE, 10, FALSE, rat(0, 1), TRUE)), 5))

\* both searches of every query against a catalog, computed once per catalog
localSearches(products) ==
    [q \in RagQueries |->
        [gemini |-> geminiCandidates(q, products),
         fallback |-> fallbackFound(q, products)]]

\* the RAGResponse of fallbackSearch
fallbackAnswer(fetched, outcome) ==
    RagCall(gQuery, fetched, outcome,
            IF gFound[gQuery].fallback = 0 THEN "nomatch" ELSE "fallback",
            gFound[gQuery].fallback)

\* a caller invokes intelligentSearch(query, userId, allProducts)
ragStart(q) ==
    /\ gPc = "idle"
    /\ gPc' = "call"
    /\ gQuery' = q
    /\ UNCHANGED <<gApiKey, gAvailable, gProducts, gFound, gLast>>

\* lines 249-251: no key, or Gemini marked unavailable
ragFallback ==
    /\ gPc = "call"
    /\ ~gApiKey \/ ~gAvailable
    /\ gPc' = "idle"
    /\ gLast' = fallbackAnswer(FALSE, "none")
    /\ UNCHANGED <<gApiKey, gAvailable, gQuery, gProducts, gFound>>

\* searchWithGemini throws 'No results from search' (line 286); the catch of
\* lines 256-260 marks Gemini unavailable and answers from fallbackSearch
ragNoResults ==
    /\ gPc = "call"
    /\ gApiKey /\ gAvailable
    /\ gFound[gQuery].gemini = 0
    /\ gPc' = "idle"
    /\ gAvailable' = FALSE
    /\ gLast' = fallbackAnswer(FALSE, "none")
    /\ UNCHANGED <<gApiKey, gQuery, gProducts, gFound>>

\* searchWithGemini reaches the fetch of getGeminiRecommendations
ragAsksLlm ==
    /\ gPc = "call"
    /\ gApiKey /\ gAvailable
    /\ gFound[gQuery].gemini > 0
    /\ gPc' = "llm"
    /\ UNCHANGED <<gApiKey, gAvailable, gQuery, gProducts, gFound, gLast>>

\* the fetch settles with a usable reply
ragLlmAnswers ==
    /\ gPc = "llm"
    /\ gPc' = "idle"
    /\ gLast' = RagCall(gQuery, TRUE, "ok", "llm",
                        min2(gFound[gQuery].gemini, 5))
    /\ UNCHANGED <<gApiKey, gAvailable, gQuery, gProducts, gFound>>

\* the fetch fails: getGeminiRecommendations throws, lines 256-260 follow
ragLlmFails(outcome) ==
    /\ gPc = "llm"
    /\ outcome # "ok"
    /\ gPc' = "idle"
    /\ gAvailable' = FALSE
    /\ gLast' = fallbackAnswer(TRUE, outcome)
    /\ UNCHANGED <<gApiKey, gQuery, gProducts, gFound>>

InitRag ==
    /\ IdleOrder
    /\ IdleSearch
    /\ IdleAI
    /\ IdleText
    /\ IdleHelper
    /\ IdleLimiter
    /\ IdleExcel
    /\ NewRagService
    /\ gApiKey \in BOOLEAN
    /\ gProducts \in RagCatalogs
    /\ gFound = localSearches(gProducts)

NextRag ==
    /\ \/ \E q \in RagQueries : ragStart(q)
       \/ ragFallback
       \/ ragNoResults
       \/ ragAsksLlm
       \/ ragLlmAnswers
       \/ \E o \in RagOutcomes : ragLlmFails(o)
    /\ UNCHANGED <<orderVars, searchVars, aiVars, textVars, helperVars, limiterVars,
                   excelVars>>

SpecRag == InitRag /\ [][NextRag]_vars

\* callers keep coming and every call runs to its end
SpecRagCalled == SpecRag /\ WF_vars(NextRag)

(***************************************************************************)
(* C1: after any sequence of createOrder, addItem and removeItem calls,    *)
(* every stored order has total = sum over its lines of price x quantity.  *)
(***************************************************************************)
RECURSIVE LineSum(_, _)
LineSum(items, n) ==
    IF n = 0 THEN 0
    ELSE LineSum(items, n - 1) + items[n].quantity * items[n].product.ventas

C1_TotalIsSumOfLines ==
    \A c \in DOMAIN orders :
        orders[c].total = LineSum(orders[c].items, Len(orders[c].items))

\* an order of two lines, one of which accumulated two additions
C1_Witness ==
    \E c \in DOMAIN orders :
        /\ Len(orders[c].items) = 2
        /\ \E i \in 1..2 : orders[c].items[i].quantity >= 2
        /\ orders[c].total > 0

(***************************************************************************)
(* C2: addItem for a description already in the customer's order adds the  *)
(* quantity to the existing line (same number of lines, that line's        *)
(* quantity grows by the added quantity, total = sum of the lines), and no *)
(* order ever holds two lines with the same description.                   *)
(***************************************************************************)
NoDuplicateLines(order) ==
    \A i, j \in 1..Len(order.items) :
        order.items[i].product.descripcion = order.items[j].product.descripcion
            => i = j

AddItemMerges(c, p, q) ==
    LET desc == p.descripcion
        old  == orders[c].items
        new  == orders'[c].items
        k    == CHOOSE i \in 1..Len(old) : old[i].product.descripcion = desc
    IN  (/\ lastOp' = [op |-> "addItem", customer |-> c]
         /\ hasOrder(c)
         /\ \E i \in 1..Len(old) : old[i].product.descripcion = desc
         /\ addItem(c, p, q))
        => /\ Len(new) = Len(old)
           /\ new[k].quantity = old[k].quantity + q
           /\ \A i \in 1..Len(old) : i # k => new[i] = old[i]
           /\ Len(old) = 1 => orders'[c].total = old[1].product.ventas * (old[1].quantity + q)

C3_ResultsSortedByScore ==
    sPc = "done" =>
        \A i \in 1..(Len(sResults) - 1) :
            sResults[i].score[1] * sResults[i + 1].score[2]
                >= sResults[i + 1].score[1] * sResults[i].score[2]

\* two results of different scores that the strategies produced in ascending
\* order, so that the sort had to move them
C3_Witness ==
    /\ sPc = "done"
    /\ Len(sResults) = 2
    /\ sResults[1].score # sResults[2].score
    /\ \E i, j \in 1..Len(sStrategies) :
          /\ i < j
          /\ sStrategies[i] = sResults[2]
          /\ sStrategies[j] = sResults[1]

(***************************************************************************)
(* C4: search() returns at most one result per product description, and    *)
(* the score of that result is the maximum score any strategy produced for *)
(* a product with that description.                                        *)
(***************************************************************************)
C4_OneResultPerDescriptionWithMaxScore ==
    sPc = "done" =>
        /\ \A i, j \in 1..Len(sResults) :
              sResults[i].product.descripcion = sResults[j].product.descripcion
                  => i = j
        /\ \A i \in 1..Len(sResults) :
              LET same == {k \in 1..Len(sStrategies) :
                              sStrategies[k].product.descripcion
                                  = sResults[i].product.descripcion}
              IN  /\ \E k \in same : sStrategies[k].score = sResults[i].score
                  /\ \A k \in same :
                        sStrategies[k].score[1] * sResults[i].score[2]
                            <= sResults[i].score[1] * sStrategies[k].score[2]

\* a description that three strategy results compete for, with different scores
C4_Witness ==
    /\ sPc = "done"
    /\ \E i \in 1..Len(sResults) :
          \E k1, k2, k3 \in 1..Len(sStrategies) :
              /\ k1 < k2 /\ k2 < k3
              /\ \A k \in {k1, k2, k3} :
                    sStrategies[k].product.descripcion = sResults[i].product.descripcion
              /\ sStrategies[k1].score # sStrategies[k2].score
              /\ sStrategies[k2].score # sStrategies[k3].score

(***************************************************************************)
(* C5: when the normalized query equals the normalized description of a    *)
(* product, the result returned for that description has score 1.0 and     *)
(* matchType 'exact'.                                                      *)
(***************************************************************************)
C5_ExactMatchScoresOne ==
    sPc = "done" =>
        \A i \in 1..Len(sResults) :
            normalizeText(Chars(sResults[i].product.descripcion))
                    = normalizeText(Chars(sQuery))
                => /\ sResults[i].score = <<1, 1>>
                   /\ sResults[i].matchType = "exact"

\* an exact hit that the partial and keyword strategies also found
C5_Witness ==
    /\ sPc = "done"
    /\ \E i \in 1..Len(sResults) :
          /\ sResults[i].matchType = "exact"
          /\ normalizeText(Chars(sResults[i].product.descripcion))
                = normalizeText(Chars(sQuery))
          /\ \E k \in 1..Len(sStrategies) :
                /\ sStrategies[k].product = sResults[i].product
                /\ sStrategies[k].matchType = "partial"
          /\ \E k \in 1..Len(sStrategies) :
                /\ sStrategies[k].product = sResults[i].product
                /\ sStrategies[k].matchType = "keyword"

(***************************************************************************)
(* C6: the partial strategy produces a result for a product only if every  *)
(* query word longer than 2 characters is a whole word of the description  *)
(* or, for query words longer than 3 characters, a substring of one of its *)
(* words; 'leche alpina deslactosada' does not match 'LECHE ALPINA'.       *)
(***************************************************************************)
WordFoundIn(w, descripcion) ==
    LET text == normalizeText(Chars(descripcion))
        \* the words of the description: maximal runs without a space
        IsWordAt(a, b) ==
            /\ a <= b
            /\ \A x \in a..b : text[x] # " "
            /\ (a = 1 \/ text[a - 1] = " ")
            /\ (b = Len(text) \/ text[b + 1] = " ")
    IN  \E a, b \in 1..Len(text) :
            /\ IsWordAt(a, b)
            /\ \/ SubSeq(text, a, b) = w
               \/ /\ Len(w) > 3
                  /\ \E x \in a..b : x + Len(w) - 1 <= b /\ SubSeq(text, x, x + Len(w) - 1) = w

C6_PartialNeedsEveryWord ==
    sPc = "done" =>
        /\ \A k \in 1..Len(sStrategies) :
              sStrategies[k].matchType = "partial" =>
                  LET query == normalizeText(Chars(sQuery))
                      words == splitSpaces(query)
                  IN  \A n \in 1..Len(words) :
                          Len(words[n]) > 2 =>
                              WordFoundIn(words[n], sStrategies[k].product.descripcion)
        /\ sQuery = "leche alpina deslactosada" =>
              ~\E k \in 1..Len(sStrategies) :
                    /\ sStrategies[k].matchType = "partial"
                    /\ sStrategies[k].product.descripcion = "LECHE ALPINA"

\* the query of the example against a catalog holding LECHE ALPINA: the
\* keyword strategy finds the product, the partial strategy does not
C6_Witness ==
    /\ sPc = "done"
    /\ sQuery = "leche alpina deslactosada"
    /\ \E i \in 1..Len(sProducts) : sProducts[i].descripcion = "LECHE ALPINA"
    /\ \E k \in 1..Len(sStrategies) :
          /\ sStrategies[k].product.descripcion = "LECHE ALPINA"
          /\ sStrategies[k].matchType = "keyword"
    /\ ~\E k \in 1..Len(sStrategies) : sStrategies[k].matchType = "partial"

\* the sub-requests processOrder has settled so far
Settled == 1..Len(aLog)

\* the highest price of a list of products is more than twice the lowest
PriceSpreadOverDouble(products) ==
    \E i, j \in 1..Len(products) : products[i].ventas > 2 * products[j].ventas

(***************************************************************************)
(* C7: a sub-request whose search returns exactly one candidate is         *)
(* resolved to a match of that candidate with confidence 0.95 and          *)
(* autoSelected = false; no request to the LLM is issued for it, nothing   *)
(* of it goes to clarification, and the returned result carries the match  *)
(* with needsClarification = false.                                        *)
(***************************************************************************)
C7_SingleCandidateMatches ==
    /\ aPc = "llm" => Len(aCandidates) # 1
    /\ \A n \in Settled :
          Len(aLog[n].candidates) = 1 =>
             /\ aLog[n].llm.kind = "none"
             /\ aLog[n].resolution = "single"
             /\ aLog[n].match \in 1..Len(aMatches)
             /\ aMatches[aLog[n].match].product = aLog[n].candidates[1]
             /\ aMatches[aLog[n].match].confidence = <<19, 20>>
             /\ aMatches[aLog[n].match].autoSelected = FALSE
             /\ aResult.returned =>
                   /\ aResult.needsClarification = FALSE
                   /\ aResult.hasOptions = FALSE
                   /\ aResult.matches[aLog[n].match] = aMatches[aLog[n].match]

\* "arroz y leche" against a catalog with one rice and one milk: two
\* single-candidate sub-requests, both matched in the returned result
C7_Witness ==
    /\ aResult.returned
    /\ aApiKey
    /\ Len(aLog) = 2
    /\ \A n \in Settled : Len(aLog[n].candidates) = 1
    /\ Len(aResult.matches) = 2
    /\ aResult.matches[1].product.descripcion = "ARROZ DIANA 500G"
    /\ aResult.matches[2].product.descripcion = "LECHE ALPINA 1L"

(***************************************************************************)
(* C8: when no sub-request has any candidate, processOrder returns         *)
(* matches = [] and needsClarification = false, having issued no request   *)
(* to the LLM; against an empty catalog every search returns the empty     *)
(* list.                                                                   *)
(***************************************************************************)
C8_NoCandidatesNoMatches ==
    /\ aPc = "llm" => Len(aCandidates) >= 2
    /\ aProducts = <<>> => \A n \in Settled : aLog[n].candidates = <<>>
    /\ (aResult.returned /\ \A n \in Settled : aLog[n].candidates = <<>>) =>
          /\ aResult.matches = <<>>
          /\ aResult.needsClarification = FALSE
          /\ aResult.hasOptions = FALSE
          /\ \A n \in Settled : aLog[n].llm.kind = "none"

\* "arroz y leche" against the empty catalog, with the API key configured
C8_Witness ==
    /\ aResult.returned
    /\ aApiKey
    /\ aProducts = <<>>
    /\ Len(aLog) = 2
    /\ \A n \in Settled : aLog[n].candidates = <<>>

(***************************************************************************)
(* C9: getAIRecommendation resolves to null on every failure (non-2xx,     *)
(* timeout, no parseable JSON, selectedId missing, non-numeric or not one  *)
(* of 0..candidates.length-1) and to candidates[selectedId] only when      *)
(* selectedId is one of those indexes.  The code lets a selectedId such as *)
(* 0.5 through its range test and returns candidates[0.5], i.e. undefined. *)
(***************************************************************************)
C9_NullUnlessValidIndex ==
    \A n \in Settled :
       aLog[n].llm.kind # "none" =>
          LET id == aLog[n].llm.id
              validIndex == /\ aLog[n].llm.kind = "selectedId_number"
                            /\ id[2] = 1
                            /\ id[1] \in 0..(Len(aLog[n].candidates) - 1)
          IN  IF validIndex
              THEN /\ aLog[n].returned = "product"
                   /\ aMatches[aLog[n].match].product = aLog[n].candidates[id[1] + 1]
              ELSE aLog[n].returned = "null"

C11_ManyCandidatesAskTheUser ==
    (/\ aResult.returned
     /\ Len(aRequests) = 1
     /\ Len(aLog) = 1
     /\ Len(aLog[1].candidates) > 5) =>
        /\ aResult.needsClarification = TRUE
        /\ aResult.matches = <<>>

(***************************************************************************)
(* C12: in the result of a multi-item utterance every sub-request that had *)
(* at least one candidate is present, as a match in matches or with its    *)
(* candidates among the clarification options.  In the code the options    *)
(* collected for clarification are returned only when there is no match at *)
(* all.                                                                    *)
(***************************************************************************)
C12_NoSubRequestDropped ==
    (aResult.returned /\ Len(aRequests) >= 2) =>
        \A n \in Settled :
            Len(aLog[n].candidates) >= 1 =>
                \/ /\ aLog[n].match \in 1..Len(aResult.matches)
                   /\ \E k \in 1..Len(aLog[n].candidates) :
                         aResult.matches[aLog[n].match].product = aLog[n].candidates[k]
                \/ /\ aResult.needsClarification
                   /\ aResult.hasOptions
                   /\ \E k \in 1..Len(aLog[n].candidates) :
                         \E c \in 1..Len(aResult.options) :
                            aResult.options[c] = aLog[n].candidates[k]

(***************************************************************************)
(* C13: every match returned by processOrder carries a quantity that is an *)
(* integer >= 1.  In the code the quantity is the parseFloat of the first  *)
(* number-and-unit pattern that matches, so '2.5 kilos' gives 2.5.         *)
(***************************************************************************)
C13_QuantityIsPositiveInteger ==
    aResult.returned =>
        \A k \in 1..Len(aResult.matches) :
            /\ aResult.matches[k].quantity[2] = 1
            /\ aResult.matches[k].quantity[1] >= 1

(***************************************************************************)
(* C14: for every minScore and maxResults the caller passes, minScore = 0  *)
(* included, search() returns exactly the deduplicated candidates whose    *)
(* score is >= minScore, cut to the maxResults best; 0.3 and 15 apply only *)
(* when the option is omitted.  In the code `options?.minScore || 0.3`     *)
(* replaces a passed 0 by 0.3.                                             *)
(***************************************************************************)
C14_PassedThresholdsAreUsed ==
    sPc = "done" =>
        LET minScore == IF sOptions.hasMinScore THEN sOptions.minScore ELSE <<3, 10>>
            maxResults == IF sOptions.hasMaxResults THEN sOptions.maxResults ELSE 15
            Returned(k) == \E i \in 1..Len(sResults) :
                              sResults[i].product.descripcion
                                  = sStrategies[k].product.descripcion
        IN  /\ Len(sResults) <= maxResults
            /\ \A i \in 1..Len(sResults) :
                  sResults[i].score[1] * minScore[2] >= minScore[1] * sResults[i].score[2]
            /\ \A k \in 1..Len(sStrategies) :
                  (sStrategies[k].score[1] * minScore[2]
                      >= minScore[1] * sStrategies[k].score[2]) =>
                     \/ Returned(k)
                     \/ /\ Len(sResults) = maxResults
                        /\ \A i \in 1..Len(sResults) :
                              sResults[i].score[1] * sStrategies[k].score[2]
                                  >= sStrategies[k].score[1] * sResults[i].score[2]

\* search(query, [one product described as ARROZ DIANA 500G]) has returned
DocumentedSearch(normalizedQuery) ==
    /\ sPc = "done"
    /\ normalizeText(Chars(sQuery)) = Chars(normalizedQuery)
    /\ Len(sProducts) = 1
    /\ sProducts[1].descripcion = "ARROZ DIANA 500G"

(***************************************************************************)
(* C15 as stated: search('arros diana') against the one-product catalog    *)
(* ['ARROZ DIANA 500G'] returns exactly one result, with matchType 'fuzzy' *)
(* and score > 0.                                                          *)
(***************************************************************************)
C15_TypoReportedAsFuzzy ==
    DocumentedSearch("arros diana") =>
        /\ Len(sResults) = 1
        /\ sResults[1].matchType = "fuzzy"
        /\ sResults[1].score[1] > 0

(***************************************************************************)
(* C15, amended: search('arros diana') against the one-product catalog     *)
(* ['ARROZ DIANA 500G'] returns exactly one result with score > 0, and the *)
(* fuzzy strategy finds the product with score 0.63.  The result is that   *)
(* fuzzy one when the product has no keywords; when it carries the         *)
(* keywords the loader generates, the keyword strategy finds it too        *)
(* ('diana' is part of the query) and the result is 'keyword' with 0.75.   *)
(***************************************************************************)
C15_TypoFoundByFuzzyStrategy ==
    DocumentedSearch("arros diana") =>
        /\ Len(sResults) = 1
        /\ sResults[1].score[1] > 0
        /\ \E k \in 1..Len(sStrategies) :
              /\ sStrategies[k].matchType = "fuzzy"
              /\ sStrategies[k].score = <<63, 100>>
        /\ IF sProducts[1].keywords = <<>>
           THEN /\ sResults[1].matchType = "fuzzy"
                /\ sResults[1].score = <<63, 100>>
           ELSE /\ sResults[1].matchType = "keyword"
                /\ sResults[1].score = <<3, 4>>

\* the documented product, without keywords: the result is the fuzzy one
C15_Witness ==
    /\ DocumentedSearch("arros diana")
    /\ sProducts[1].keywords = <<>>
    /\ sOptions.hasMinScore = FALSE
    /\ Len(sResults) = 1
    /\ sResults[1].matchType = "fuzzy"

C17_NormalizeIsIdempotent ==
    /\ (tKind = "normalizeText" /\ tPc \in {"once", "done"}) =>
          /\ \A i \in 1..Len(tOnce) :
                tOnce[i] \in {LowerChars[k] : k \in 1..26} \cup DigitSet \cup {" "}
          /\ tOnce # <<>> => tOnce[1] # " " /\ tOnce[Len(tOnce)] # " "
          /\ \A i \in 1..(Len(tOnce) - 1) : ~(tOnce[i] = " " /\ tOnce[i + 1] = " ")
    /\ (tKind = "normalizeText" /\ tPc = "done") => tTwice = tOnce

\* "É,<tab>": upper case with accent, punctuation and white space at work
C17_Witness ==
    /\ tKind = "normalizeText"
    /\ tPc = "done"
    /\ tInput = <<"É", ",", "\t">>
    /\ tOnce = <<"e">>
    /\ tTwice = <<"e">>

\* the positions of a 'y' with white space on both sides that is followed
\* by a digit or by four word characters
CutPoints(t) ==
    {j \in 2..Len(t) :
        /\ t[j] = "y"
        /\ t[j - 1] \in SpaceSet
        /\ \E k \in (j + 2)..Len(t) :
              /\ \A x \in (j + 1)..(k - 1) : t[x] \in SpaceSet
              /\ \/ t[k] \in DigitSet
                 \/ /\ k + 3 <= Len(t)
                    /\ \A x \in k..(k + 3) : isWordChar(t[x])}

BeginsWithY(seg) == seg # <<>> /\ seg[1] = "y" /\ (Len(seg) = 1 \/ seg[2] \in SpaceSet)
EndsWithY(seg) ==
    seg # <<>> /\ seg[Len(seg)] = "y" /\ (Len(seg) = 1 \/ seg[Len(seg) - 1] \in SpaceSet)

SplitDone == tKind = "splitRequests" /\ tPc = "done"

C19_FinalizeRemovesTheOrder ==
    lastOp.op \in {"finalizeConfirm", "finalizeCancel"} => ~hasOrder(lastOp.customer)

(***************************************************************************)
(* C20: createOrder, addItem, removeItem, clearOrder and confirmOrder      *)
(* called for one customer leave the order of every other customer (its    *)
(* items, quantities, total and status, or its absence) unchanged.         *)
(***************************************************************************)
C20_OtherCustomersUntouched ==
    [][\A b \in Customers :
          b # lastOp'.customer =>
             /\ (b \in DOMAIN orders') = (b \in DOMAIN orders)
             /\ b \in DOMAIN orders => orders'[b] = orders[b]]_vars

\* both customers hold a non-empty order, the two orders differ, and the
\* last call removed a line from the first customer's order
C20_Witness ==
    /\ lastOp = [op |-> "removeItem", customer |-> "573001"]
    /\ hasOrder("573001")
    /\ hasOrder("573002")
    /\ Len(orders["573001"].items) = 1
    /\ Len(orders["573002"].items) = 2
    /\ orders["573002"].total = 2 * 2500 + 3 * 4800

\* the position of a product in the catalog of the call
catalogIndex(p) == CHOOSE i \in 1..Len(sProducts) : sProducts[i] = p

(***************************************************************************)
(* C21: among the results of one search() call that have equal scores the  *)
(* order is catalog order: when P and Q are both in the result with the     *)
(* same score and P precedes Q in the catalog, P precedes Q in the result,  *)
(* whichever strategies produced their results.                             *)
(***************************************************************************)
C21_TiesInCatalogOrder ==
    sPc = "done" =>
        \A i, j \in 1..Len(sResults) :
            (/\ sResults[i].score = sResults[j].score
             /\ catalogIndex(sResults[i].product) < catalogIndex(sResults[j].product))
            => i < j

HelperDone(kind) == hKind = kind /\ hPc = "done"

(***************************************************************************)
(* C22: needsUserChoice(options) is true exactly when the list has at least *)
(* 5 products and the highest price is more than twice the lowest; it is    *)
(* false for every list of fewer than 5 products and for every list whose   *)
(* highest price is at most twice the lowest.                               *)
(***************************************************************************)
C22_ChoiceNeedsFiveAndDouble ==
    HelperDone("needsUserChoice") =>
        hOut = (/\ Len(hProducts) >= 5
                /\ \E i, j \in 1..Len(hProducts) :
                      hProducts[i].ventas > 2 * hProducts[j].ventas)

\* five options, the dearest one peso above the double of the cheapest
C22_Witness ==
    /\ HelperDone("needsUserChoice")
    /\ Len(hProducts) = 5
    /\ {hProducts[i].ventas : i \in 1..5} = {1000, 2000, 2001}
    /\ hOut = TRUE

\* the package size a description states, in grams or millilitres: a pack
\* 'NxM g|ml' counts as N x M, any other size as number x unit
statedSize(description) ==
    LET t == toUpperCase(Chars(description))
    IN  IF packStarts(t) # {} THEN packSize(t) ELSE extractSize(description)

(***************************************************************************)
(* C23: selectSmallestOrMostCommon returns the candidate whose package size *)
(* parsed from the description is smallest, sizes being converted to grams  *)
(* or millilitres (kg x1000, lb x500, l x1000, a pack 'NxM g|ml' counted as *)
(* N x M), and returns the lowest-priced candidate exactly when no          *)
(* candidate has a parseable size.                                          *)
(***************************************************************************)
C23_SmallestPackageWins ==
    HelperDone("selectSmallestOrMostCommon") =>
        LET sized == {i \in 1..Len(hProducts) :
                        ratLess(rat(0, 1), statedSize(hProducts[i].descripcion))}
        IN  /\ \E i \in 1..Len(hProducts) : hProducts[i] = hOut
            /\ IF sized # {}
               THEN /\ ratLess(rat(0, 1), statedSize(hOut.descripcion))
                    /\ \A i \in sized :
                          ratGeq(statedSize(hProducts[i].descripcion),
                                 statedSize(hOut.descripcion))
               ELSE \A i \in 1..Len(hProducts) : hOut.ventas <= hProducts[i].ventas

\* how many keywords of the product contain the query or are contained in it
matchingCount(p) ==
    Cardinality({i \in 1..Len(p.keywords) :
                    LET k == normalizeText(p.keywords[i])
                    IN  includes(k, hQuery) \/ includes(hQuery, k)})

LongQueryWords == SelectSeq(splitSpaces(hQuery), LAMBDA w : Len(w) > 3)

MatchedSimilarities(p) ==
    LET productWords == splitSpaces(normalizeText(Chars(p.descripcion)))
    IN  SelectSeq([i \in 1..Len(LongQueryWords) |->
                      bestSimilarity(LongQueryWords[i], productWords)],
                  LAMBDA sim : ratLess(rat(7, 10), sim))

(***************************************************************************)
(* C25: the fuzzy strategy emits a result for a product exactly when at     *)
(* least 60% of the query words longer than 3 characters have a best        *)
(* Levenshtein similarity > 0.7 to some product word of length >= 3, and    *)
(* the emitted score is 0.7 times the mean similarity of the matched words  *)
(* only: unmatched query words do not lower the score.                      *)
(***************************************************************************)
C25_FuzzyScoreIsMeanOfMatched ==
    HelperDone("fuzzySearch") =>
        \A i \in 1..Len(hProducts) :
            LET sims == MatchedSimilarities(hProducts[i])
                emitted == {n \in 1..Len(hOut) : hOut[n].product = hProducts[i]}
            IN  /\ (emitted # {}) = (/\ Len(sims) > 0
                                     /\ 10 * Len(sims) >= 6 * Len(LongQueryWords))
                /\ \A n \in emitted :
                      hOut[n].score = ratMul(ratMul(ratSum(sims), rat(1, Len(sims))),
                                             rat(7, 10))

(***************************************************************************)
(* C26: whenever processOrder returns needsClarification = true, the       *)
(* options list it returns holds at most 5 products, for every utterance,   *)
(* multi-item utterances in which several sub-requests need clarification   *)
(* included.                                                                *)
(***************************************************************************)
C26_AtMostFiveOptions ==
    (aPc = "done" /\ aResult.needsClarification) => Len(aResult.options) <= 5

\* the calls that returned within the WINDOW_MS that start at time t
proceededFrom(t) ==
    {i \in 1..Len(rProceeded) : t <= rProceeded[i] /\ rProceeded[i] < t + WINDOW_MS}

(***************************************************************************)
(* C27: the rate limiter enforces its limit of 15 requests per minute per   *)
(* key: for every sequence and interleaving of callers that go through      *)
(* waitIfNeeded with the same key, at most 15 callers are allowed to        *)
(* proceed within any single 60-second window (and every caller blocked by  *)
(* the limit eventually proceeds).                                          *)
(***************************************************************************)
C27_AtMostFifteenPerWindow ==
    \A i \in 1..Len(rProceeded) :
        Cardinality(proceededFrom(rProceeded[i])) <= MAX_REQUESTS_PER_MINUTE

(***************************************************************************)
(* C28: a catalog reload never changes a catalog that was already handed    *)
(* out: a request that obtained the product list from getProducts before a  *)
(* reload keeps seeing the same products in the same order after the reload *)
(* completes, and a reload that fails leaves the served catalog and its     *)
(* load timestamp unchanged.                                                *)
(***************************************************************************)
C28_HandedOutCatalogIsStable ==
    /\ \A n \in 1..Len(eHeld) : eHeap[eHeld[n].ref] = eHeld[n].seen
    /\ ~eLast.ok =>
          /\ eProducts = eLast.products
          /\ eHeap[eProducts] = eLast.content
          /\ eLastLoad = eLast.lastLoad

\* a request holds the list of two rice products; the sheet was replaced and
\* reloaded since, the service now serves another list; then the sheet
\* became unreadable and the last reload failed
C28_Witness ==
    /\ \E n \in 1..Len(eHeld) :
          /\ eHeld[n].seen = <<ArrozDiana500, ArrozRoa1Kg>>
          /\ eHeld[n].ref # eProducts
    /\ eHeap[eProducts] = <<LecheAlpina, ArrozDiana500>>
    /\ eLast.op = "loadProducts"
    /\ ~eLast.ok
    /\ eLastLoad >= 0

(***************************************************************************)
(* C29: after an LLM failure the RAG adapter stops issuing LLM requests     *)
(* only temporarily: while it is marked unavailable intelligentSearch       *)
(* answers from the local fallback search, and in every execution in which  *)
(* intelligentSearch keeps being called the adapter eventually attempts the *)
(* LLM again.                                                               *)
(***************************************************************************)
C29_EventuallyAsksTheLlmAgain ==
    (gApiKey /\ ~gAvailable /\ gLast.fetched /\ gLast.outcome # "ok") ~> (gPc = "llm")

(***************************************************************************)
(* C30: the RAG adapter marks the LLM unavailable (geminiAvailable = false) *)
(* only in response to a failed LLM call (non-2xx, timeout or unparseable   *)
(* reply); an intelligentSearch call whose local search finds no products   *)
(* returns a no-match answer and leaves geminiAvailable unchanged.          *)
(***************************************************************************)
C30_UnavailableOnlyAfterFailedCall ==
    [][/\ (gAvailable /\ ~gAvailable') =>
            (gLast'.fetched /\ gLast'.outcome \in {"http", "timeout", "unparseable"})
       /\ (gPc = "call" /\ gPc' = "idle" /\ gLast'.answer = "nomatch" /\ ~gLast'.fetched) =>
            gAvailable' = gAvailable]_vars

====
